---------------------------- MODULE Spec2Model ----------------------------
(***************************************************************************)
(* EtherGuard routing plane and supernode control plane.                   *)
(*                                                                         *)
(* The graph (path.IG), its Floyd-Warshall solver, the broadcast lists and *)
(* the supernode event loop are modelled from src/main_super.go.           *)
(*                                                                         *)
(* Units: every latency is an integer number of milliseconds (the code     *)
(* keeps float64 seconds and multiplies by 1000 where it compares them),   *)
(* every instant an integer number of clock ticks.                         *)
(***************************************************************************)
EXTENDS Integers, Sequences, FiniteSets, TLC

(***************************************************************************)
(* Bounds of the model.                                                    *)
(***************************************************************************)
\* vertices of the graphs the solver is run on
NumNodes == 4

\* the largest small latency (milliseconds) a measurement takes
MaxWeight == 2

\* NodeReportTimeout of the configuration, in clock ticks
NodeReportTimeout == 1

\* the largest clock value
MaxTime == 2

\* the largest clock value of the supernode
MaxTick == 1

\* edge nodes of the supernode's configuration
NumPeers == 2

\* the largest time difference (milliseconds) a Pong reports
MaxDelay == 1

\* JitterTolerance of the configuration, in milliseconds
JitterTolerance == 1

\* JitterToleranceMultiplier of the configuration, in hundredths
JitterMultiplierPct == 100

\* RecalculateCoolDown of the configuration, in clock ticks
RecalculateCoolDown == 0

(***************************************************************************)
(* Program constants.                                                      *)
(***************************************************************************)
\* const Infinity = float64(99999) seconds, here in milliseconds
Infinity == 99999000

\* a vertex id that is no vertex: the nil *config.Vertex
NoVertex == 0

Nodes == 1..NumNodes

VARIABLES
    phase,            \* position of the driver of the current specification
    now,              \* time.Now()
    Vert,             \* IG.Vert
    edges,            \* IG.edges: row u -> (v -> Latency)
    dlTable,          \* IG.dlTable
    nhTable,          \* IG.nhTable
    bsrc,             \* the node that originated the broadcast in flight
    nsent,            \* how many times each node was sent that broadcast
    inflight,         \* copies of it on the wire, <<receiver, sender>>
    recalculateTime,  \* IG.recalculateTime
    NhTableHash,      \* IG.NhTableHash
    http_PeerID2Info, \* the node ids with an entry (public key = node id)
    http_PeerState,   \* public key -> PeerState
    http_NhTable_Hash,
    http_NhTableStr,
    http_PeerInfo_hash,
    endpoints,        \* peer -> transports on which its address is known
    StaticMode,       \* IG.StaticMode
    lastRegister,     \* peer -> the last Register handled from it
    lastSent,         \* the packets the last step handed to SendPacket
    Event_server_register, \* the channel of the Registers
    wire,             \* pushes on their way to an edge
    edgeNh,           \* edge -> the NhTableState the edge holds
    event,            \* the last step of the supernode
    graphConfig,      \* the GraphRecalculateSetting NewGraph copied into IG
    AdditionalCost,   \* peer -> AdditionalCost of its SuperPeerInfo
    peerdel,          \* the call of super_peerdel under way
    http_device,      \* transport -> the peers of http_device4, http_device6
    http_PeerIPs,     \* the public keys with an entry
    fwErr,            \* the error of the last call of FloydWarshall
    install,          \* where a task stands inside UpdateLatency or the stores of line 709
    Event_server_pong, \* the channel of that name
    timeoutCheck,     \* the statement RoutineTimeoutCheck is at
    http_maps_lock    \* how each task holds the sync.RWMutex of that name

graphVars == <<now, Vert, edges, dlTable, nhTable>>

floodVars == <<bsrc, nsent, inflight>>

superVars == <<recalculateTime, NhTableHash, http_PeerID2Info, http_PeerState,
               http_NhTable_Hash, http_NhTableStr, http_PeerInfo_hash, endpoints,
               StaticMode, lastRegister, lastSent, event>>

convVars == <<Event_server_register, wire, edgeNh>>

taskVars == <<install, Event_server_pong, timeoutCheck, http_maps_lock>>

moreVars == <<graphConfig, AdditionalCost, peerdel, http_device, http_PeerIPs, fwErr,
              taskVars>>

vars == <<phase, graphVars, floodVars, superVars, convVars, moreVars>>

(***************************************************************************)
(* path.IG: reads of the graph.                                            *)
(***************************************************************************)
\* type Latency struct { ping, ping_old float64; time time.Time }
Latency(p, po, t) == [ping |-> p, ping_old |-> po, time |-> t]

HasEdge(E, u, v) == u \in DOMAIN E /\ v \in DOMAIN E[u]

Neighbors(E, u) == IF u \in DOMAIN E THEN DOMAIN E[u] ELSE {}

\* Weight without the test of line 799
WeightNeverStale(E, t, timeout, u, v) ==
    IF u = v THEN 0
    ELSE IF ~HasEdge(E, u, v) THEN Infinity
    ELSE E[u][v].ping

\* lines 786-803
Weight(E, t, timeout, u, v) ==
    IF u = v THEN 0
    ELSE IF ~HasEdge(E, u, v) THEN Infinity
    ELSE IF t > E[u][v].time + timeout THEN Infinity
    ELSE E[u][v].ping

OldWeight(E, u, v) ==
    IF u = v THEN 0
    ELSE IF ~HasEdge(E, u, v) THEN Infinity
    ELSE E[u][v].ping_old

SetWeight(E, u, v, w) ==
    IF HasEdge(E, u, v) THEN [E EXCEPT ![u][v].ping = w] ELSE E

SetOldWeight(E, u, v, w) ==
    IF HasEdge(E, u, v) THEN [E EXCEPT ![u][v].ping_old = w] ELSE E

(***************************************************************************)
(* Orders in which a Go `range` over a map may visit a set of keys.        *)
(***************************************************************************)
Perms(S) ==
    {f \in [1..Cardinality(S) -> S] : \A a, b \in 1..Cardinality(S) : f[a] = f[b] => a = b}

\* the keys in ascending order
RECURSIVE Ascending(_)
Ascending(S) ==
    IF S = {} THEN <<>>
    ELSE LET m == CHOOSE x \in S : \A y \in S : x <= y
         IN <<m>> \o Ascending(S \ {m})

(***************************************************************************)
(* FloydWarshall, lines 873-936.                                           *)
(*                                                                         *)
(* A table pair is a record [dist, next]; next[u][v] = NoVertex stands for *)
(* a missing entry of next[u] (Next() returns nil for it).                 *)
(***************************************************************************)
\* lines 885-901, the distances and next hops before the triple loop
FWStart(vert, E, t, timeout) ==
    LET live(u) == {v \in Neighbors(E, u) : Weight(E, t, timeout, u, v) < Infinity}
    IN [dist |-> [u \in vert |->
                    [v \in vert \cup live(u) |->
                        IF v \in live(u) THEN Weight(E, t, timeout, u, v)
                        ELSE IF v = u THEN 0
                        ELSE Infinity]],
        next |-> [u \in vert |->
                    [v \in vert \cup live(u) |->
                        IF v \in live(u) THEN v ELSE NoVertex]]]

\* line 899, SetOldWeight(u, v, w) for every neighbour v of every vertex u
FWSetOld(vert, E, t, timeout) ==
    [u \in DOMAIN E |->
        IF u \in vert
        THEN [v \in DOMAIN E[u] |->
                [E[u][v] EXCEPT !.ping_old = Weight(E, t, timeout, u, v)]]
        ELSE E[u]]

\* the test of line 906 with >= for >
BetterOrEqual(T, k, i, j) ==
    /\ T.dist[i][k] < Infinity
    /\ T.dist[k][j] < Infinity
    /\ T.dist[i][j] >= T.dist[i][k] + T.dist[k][j]

\* lines 905-906, the two tests of the triple loop
Better(T, k, i, j) ==
    /\ T.dist[i][k] < Infinity
    /\ T.dist[k][j] < Infinity
    /\ T.dist[i][j] > T.dist[i][k] + T.dist[k][j]

\* lines 905-910, the body of the triple loop
Relax(T, k, i, j) ==
    IF Better(T, k, i, j)
    THEN [dist |-> [T.dist EXCEPT ![i][j] = T.dist[i][k] + T.dist[k][j]],
          next |-> [T.next EXCEPT ![i][j] = T.next[i][k]]]
    ELSE T

\* The loops below hand each intermediate table on as a value
\* (CHOOSE R \in {f(S) : S \in {e}} : TRUE is f(e), with e evaluated once).

\* line 904, for j := range vert
RECURSIVE LoopJ(_, _, _, _, _)
LoopJ(T, k, i, js, n) ==
    IF n > Len(js) THEN T
    ELSE CHOOSE R \in {LoopJ(S, k, i, js, n + 1) : S \in {Relax(T, k, i, js[n])}} : TRUE

\* line 903, for i := range vert
RECURSIVE LoopI(_, _, _, _, _)
LoopI(T, k, is, js, n) ==
    IF n > Len(is) THEN T
    ELSE CHOOSE R \in {LoopI(S, k, is, js, n + 1) : S \in {LoopJ(T, k, is[n], js, 1)}} : TRUE

\* lines 903-912 for one k.  While dist[k][k] = 0 no cell of row k or of
\* column k is rewritten during the two inner loops (the test of line 906
\* fails for it), so every cell is decided by values that stay fixed and the
\* loops are evaluated cell by cell; with dist[k][k] < 0 they are run one
\* cell after the other, in ascending order.
LoopIJ(T, k, vs) ==
    IF T.dist[k][k] = 0
    THEN [dist |-> [i \in DOMAIN T.dist |-> [j \in DOMAIN T.dist[i] |->
                      IF j \in DOMAIN T.dist /\ Better(T, k, i, j)
                      THEN T.dist[i][k] + T.dist[k][j]
                      ELSE T.dist[i][j]]],
          next |-> [i \in DOMAIN T.next |-> [j \in DOMAIN T.next[i] |->
                      IF j \in DOMAIN T.next /\ Better(T, k, i, j)
                      THEN T.next[i][k]
                      ELSE T.next[i][j]]]]
    ELSE LoopI(T, k, vs, vs, 1)

\* line 902, for k := range vert, visiting the keys in the order ks
RECURSIVE LoopK(_, _, _, _)
LoopK(T, ks, vs, n) ==
    IF n > Len(ks) THEN T
    ELSE CHOOSE R \in {LoopK(S, ks, vs, n + 1) : S \in {LoopIJ(T, ks[n], vs)}} : TRUE

\* lines 914-915, some dist[i][i] < 0
NegativeCycle(T) == \E i \in DOMAIN T.dist : T.dist[i][i] < 0

\* lines 859-871 with the test of line 863 as Weight(u, v) < -1
RemoveAllNegativeValueStrict(vert, E, t, timeout) ==
    [u \in DOMAIN E |->
        [v \in DOMAIN E[u] |->
            IF u \in vert /\ v \in vert /\ Weight(E, t, timeout, u, v) < 0 - 1
            THEN [E[u][v] EXCEPT !.ping = 0]
            ELSE E[u][v]]]

\* lines 859-871
RemoveAllNegativeValue(vert, E, t, timeout) ==
    [u \in DOMAIN E |->
        [v \in DOMAIN E[u] |->
            IF u \in vert /\ v \in vert /\ Weight(E, t, timeout, u, v) < 0
            THEN [E[u][v] EXCEPT !.ping = 0]
            ELSE E[u][v]]]

EmptyTable == [dist |-> <<>>, next |-> <<>>]

\* one run of lines 882-913 over the graph E: the tables and the graph after
FWPass(vert, E, t, timeout, ks) ==
    [T |-> CHOOSE R \in {LoopK(S, ks, Ascending(vert), 1) :
                            S \in {FWStart(vert, E, t, timeout)}} : TRUE,
     E |-> FWSetOld(vert, E, t, timeout)]

\* lines 914-935 after the first run p1, with ks2 the order of the retry
FWFinish(vert, p1, t, timeout, ks2) ==
    IF ~NegativeCycle(p1.T)
    THEN [dist |-> p1.T.dist, next |-> p1.T.next, edges |-> p1.E, err |-> "none"]
    ELSE CHOOSE R \in
           {IF ~NegativeCycle(p2.T)
            THEN [dist |-> p2.T.dist, next |-> p2.T.next, edges |-> p2.E,
                  err |-> "negative cycle detected"]
            ELSE [dist |-> EmptyTable.dist, next |-> EmptyTable.next,
                  edges |-> p2.E, err |-> "negative cycle detected"] :
            p2 \in {FWPass(vert, RemoveAllNegativeValue(vert, p1.E, t, timeout),
                           t, timeout, ks2)}} : TRUE

\* FloydWarshall(false): ks and ks2 are the orders in which the first run
\* and the retry visit k.  The result is [dist, next, edges, err].
FloydWarshall(vert, E, t, timeout, ks, ks2) ==
    CHOOSE R \in {FWFinish(vert, p1, t, timeout, ks2) :
                    p1 \in {FWPass(vert, E, t, timeout, ks)}} : TRUE

(***************************************************************************)
(* Reads of the installed table.                                           *)
(***************************************************************************)
\* lines 776-784
Next(nh, u, v) ==
    IF u \notin DOMAIN nh THEN NoVertex
    ELSE IF v \notin DOMAIN nh[u] THEN NoVertex
    ELSE nh[u][v]


\* lines 938-948.  The loop of Path never ends when the hops come back to a
\* vertex already visited, and faults on a missing hop: [nodes, end] with
\* end one of "done", "loop" (no return), "nil" (nil dereference).
RECURSIVE PathWalk(_, _, _, _)
PathWalk(nh, u, v, seen) ==
    IF u = v THEN [nodes |-> seen, end |-> "done"]
    ELSE LET h == Next(nh, u, v)
         IN  IF h = NoVertex THEN [nodes |-> seen, end |-> "nil"]
             ELSE IF \E n \in 1..Len(seen) : seen[n] = h
                  THEN [nodes |-> Append(seen, h), end |-> "loop"]
                  ELSE PathWalk(nh, h, v, Append(seen, h))

Path(nh, u, v) ==
    IF Next(nh, u, v) = NoVertex THEN [nodes |-> <<>>, end |-> "done"]
    ELSE PathWalk(nh, u, v, <<u>>)

\* lines 985-991
GetBoardcastList(nh, id) ==
    IF id \notin DOMAIN nh THEN {}
    ELSE {nh[id][v] : v \in DOMAIN nh[id]} \ {NoVertex}

\* lines 993-1004 without the test check_id != in_id
ThroughListKeepsIn(nh, self_id, in_id, src_id) ==
    {check_id \in GetBoardcastList(nh, self_id) :
        LET p == Path(nh, src_id, check_id).nodes
        IN  \E n \in 1..Len(p) : p[n] = self_id}

\* lines 993-1004 without the test path_node == self_id
ThroughListAnyRoute(nh, self_id, in_id, src_id) ==
    {check_id \in GetBoardcastList(nh, self_id) :
        LET p == Path(nh, src_id, check_id).nodes
        IN  \E n \in 1..Len(p) : check_id # in_id}

\* the same with the path taken from the candidate back to the source
GetBoardcastThroughListBack(nh, self_id, in_id, src_id) ==
    {check_id \in GetBoardcastList(nh, self_id) :
        LET p == Path(nh, check_id, src_id).nodes
        IN  \E n \in 1..Len(p) : p[n] = self_id /\ check_id # in_id}

\* lines 993-1004 (for tables on which Path returns)
GetBoardcastThroughList(nh, self_id, in_id, src_id) ==
    {check_id \in GetBoardcastList(nh, self_id) :
        LET p == Path(nh, src_id, check_id).nodes
        IN  \E n \in 1..Len(p) : p[n] = self_id /\ check_id # in_id}


(***************************************************************************)
(* Graphs the solver is run on.  A graph is what a sequence of             *)
(* UpdateLatency calls (lines 730-752) leaves in Vert and edges before any *)
(* run of the solver: every record has ping_old = Infinity.                *)
(*   w       the measured latency of every ordered pair, Infinity for a    *)
(*           pair never measured                                           *)
(*   selfs   the vertices u with a record edges[u][u]                      *)
(*   silent  the vertices whose outgoing records were last refreshed at    *)
(*           time 0, longer than NodeReportTimeout ago                     *)
(***************************************************************************)
BigWeight == Infinity \div 2 + 1

DirectedPairs(V) == {p \in V \X V : p[1] # p[2]}

Links(V) == {p \in V \X V : p[1] < p[2]}

Measured(w, selfs, u, v) == IF u = v THEN u \in selfs ELSE w[<<u, v>>] # Infinity

BuildGraph(V, w, selfs, silent, t) ==
    [u \in {x \in V : \E y \in V : Measured(w, selfs, x, y)} |->
        [v \in {y \in V : Measured(w, selfs, u, y)} |->
            Latency(IF u = v THEN 1 ELSE w[<<u, v>>], Infinity,
                    IF u \in silent THEN 0 ELSE t)]]

\* w(u,v) = w(v,u) = l(link)
Symmetric(V, l) ==
    [p \in DirectedPairs(V) |->
        IF p[1] < p[2] THEN l[p] ELSE l[<<p[2], p[1]>>]]

SmallNodes == 1..(NumNodes - 1)

\* one vertex, or none, out of the ordinary
Specials(V) == {{}} \cup {{u} : u \in V}

\* directed graphs on all but one vertex with latencies in W, one vertex at
\* most with a record to itself or, with quiet, gone silent
IsDirectedGraph(V, E, W, quiet) ==
    /\ V = SmallNodes
    /\ \E w \in [DirectedPairs(SmallNodes) -> {Infinity} \cup W],
          selfs \in Specials(SmallNodes), silent \in Specials(SmallNodes) :
          /\ selfs = {} \/ silent = {}
          /\ quiet \/ silent = {}
          /\ E = BuildGraph(SmallNodes, w, selfs, silent, MaxTime)

\* symmetric graphs on every vertex, latencies 1..MaxWeight
IsSymmetricGraph(V, E) ==
    /\ V = Nodes
    /\ \E l \in [Links(Nodes) -> {Infinity} \cup (1..MaxWeight)] :
          E = BuildGraph(Nodes, Symmetric(Nodes, l), {}, {}, MaxTime)

(***************************************************************************)
(* path.IG: writes of the graph and the recalculation of the tables.       *)
(* A graph value G is the struct IG: [Vert, edges, dlTable, nhTable,       *)
(* recalculateTime, NhTableHash, StaticMode, JitterTolerance,              *)
(* JitterToleranceMultiplier, RecalculateCoolDown, IsSuperMode].           *)
(***************************************************************************)
\* time.Time{}, an instant before every instant of the clock
ZeroTime == 0 - (MaxTick + NodeReportTimeout + RecalculateCoolDown + 1)

\* [32]byte{}
ZeroHash == <<"zero">>

\* a hash made with another salt: what an edge kept from an earlier run
StaleHash == <<"stale">>

\* a nil []byte
NilStr == <<>>

\* json.Marshal: the text determines the value
Marshal(x) == <<"json", x>>

\* hex(md5.Sum(append(str, http_HashSalt...))), lines 413-415: with the salt
\* of this run fixed, the hash determines the text
Md5(str) == <<"md5", str>>

Abs(x) == IF x < 0 THEN 0 - x ELSE x

Max(x, y) == IF x > y THEN x ELSE y

\* the greatest common divisor
RECURSIVE Gcd(_, _)
Gcd(a, b) == IF b = 0 THEN a ELSE Gcd(b, a % b)

RECURSIVE Power(_, _)
Power(b, e) == IF e = 0 THEN 1 ELSE b * Power(b, e - 1)

\* math.Ceil(math.Pow(x/t, 1/r)) for r = p/q: the least n with n^p >= (x/t)^q
BucketOf(x, t, p, q) ==
    CHOOSE n \in 0..x : /\ Power(n, p) * Power(t, q) >= Power(x, q)
                        /\ \A m \in 0..(n - 1) : Power(m, p) * Power(t, q) < Power(x, q)

\* lines 643-652: <<"bucket", n>> stands for the value n^r * t, which grows
\* with n; the bucket of Infinity, above that of every measurement, is not
\* searched for; without the rounding x stands for itself
GetWeightType(G, x) ==
    LET t == G.JitterTolerance
        r == G.JitterToleranceMultiplier
        d == Gcd(r, 100)
    IN  IF t > 0 /\ r > 100
        THEN IF Abs(x) >= Infinity THEN <<"bucket", Infinity>>
             ELSE <<"bucket", BucketOf(Abs(x), t, r \div d, 100 \div d)>>
        ELSE <<"ms", Abs(x)>>

\* lines 654-669.  Values are whole milliseconds and the multiplier r is in
\* hundredths: diff > t + x*(r-1) is diff - t > floor(x*(r-1)), diff - t
\* being an integer.
ShouldUpdate(G, u, v, newval) ==
    LET oldval == Abs(OldWeight(G.edges, u, v))
        nv     == Abs(newval)
        diff   == Abs(nv - oldval)
        x      == Max(oldval, nv)
        t      == G.JitterTolerance
        r      == G.JitterToleranceMultiplier
    IN  IF G.IsSuperMode
        THEN IF t > 0 /\ r >= 100
             THEN diff - t > (x * (r - 100)) \div 100
             ELSE oldval = nv
        ELSE GetWeightType(G, oldval) # GetWeightType(G, nv)

\* lines 671-682
CheckAnyShouldUpdate(G, t) ==
    \E u \in G.Vert, v \in G.Vert :
        ShouldUpdate(G, u, v, Weight(G.edges, t, NodeReportTimeout, u, v))

\* lines 820-833
ShouldCalculate(G, t) ==
    \E u \in G.Vert, v \in G.Vert :
        /\ u # v
        /\ ShouldUpdate(G, u, v, Weight(G.edges, t, NodeReportTimeout, u, v))

\* line 702, old_next != nexthop: two *config.Vertex are compared, the entry
\* of the table this run allocated (lines 895-897) and the entry of the
\* installed table; they are never the same pointer
HopDiffers(next, nh, src, dst) == TRUE

\* lines 697-708.  A missing entry of next[src] is no entry of the Go map.
CheckLoop(next, nh) ==
    \E src \in DOMAIN next : \E dst \in DOMAIN next[src] :
        next[src][dst] # NoVertex /\ HopDiffers(next, nh, src, dst)

\* lines 684-713 without the test of line 685
RecalculateNhTableDynamic(G, checkchange, t, ks) ==
    IF ~ShouldCalculate(G, t) THEN [G |-> G, changed |-> FALSE]
    ELSE IF G.recalculateTime + G.RecalculateCoolDown < t
    THEN CHOOSE R \in
           {[G |-> [G EXCEPT !.edges = r.edges, !.dlTable = r.dist,
                             !.nhTable = r.next, !.recalculateTime = t],
             changed |-> (checkchange /\ CheckLoop(r.next, G.nhTable))] :
            r \in {FloydWarshall(G.Vert, G.edges, t, NodeReportTimeout, ks, ks)}} : TRUE
    ELSE [G |-> G, changed |-> FALSE]

\* lines 684-713: [G, changed]
RecalculateNhTable(G, checkchange, t, ks) ==
    IF G.StaticMode
    THEN [G |-> G, changed |-> (G.NhTableHash = ZeroHash /\ checkchange)]
    ELSE IF ~ShouldCalculate(G, t) THEN [G |-> G, changed |-> FALSE]
    ELSE IF G.recalculateTime + G.RecalculateCoolDown < t
    THEN CHOOSE R \in
           {[G |-> [G EXCEPT !.edges = r.edges, !.dlTable = r.dist,
                             !.nhTable = r.next, !.recalculateTime = t],
             changed |-> (checkchange /\ CheckLoop(r.next, G.nhTable))] :
            r \in {FloydWarshall(G.Vert, G.edges, t, NodeReportTimeout, ks, ks)}} : TRUE
    ELSE [G |-> G, changed |-> FALSE]

\* lines 735-738
AddRow(E, u) ==
    [x \in DOMAIN E \cup {u} |-> IF x \in DOMAIN E THEN E[x] ELSE <<>>]

\* PutEdge with the assignment of line 743 made to ping_old as well
PutEdgeWithOld(E, u, v, w, t) ==
    LET row == E[u]
    IN  [E EXCEPT ![u] =
            [y \in DOMAIN row \cup {v} |->
                IF y # v THEN row[y]
                ELSE IF v \in DOMAIN row
                     THEN [row[v] EXCEPT !.ping = w, !.ping_old = w, !.time = t]
                     ELSE Latency(w, Infinity, t)]]

\* lines 742-751
PutEdge(E, u, v, w, t) ==
    LET row == E[u]
    IN  [E EXCEPT ![u] =
            [y \in DOMAIN row \cup {v} |->
                IF y # v THEN row[y]
                ELSE IF v \in DOMAIN row
                     THEN [row[v] EXCEPT !.ping = w, !.time = t]
                     ELSE Latency(w, Infinity, t)]]

\* lines 730-757: [G, changed]
UpdateLatency(G, u, v, w, recalculate, checkchange, t, ks) ==
    LET newrow == u \notin DOMAIN G.edges
        G1 == [G EXCEPT !.Vert = @ \cup {u, v},
                        !.recalculateTime = IF newrow THEN ZeroTime ELSE @,
                        !.edges = IF newrow THEN AddRow(@, u) ELSE @]
        should_update == ShouldUpdate(G1, u, v, w)
        G2 == [G1 EXCEPT !.edges = PutEdge(@, u, v, w, t)]
    IN  IF should_update /\ recalculate
        THEN RecalculateNhTable(G2, checkchange, t, ks)
        ELSE [G |-> G2, changed |-> FALSE]

\* NhTableExpire: SetNHTable (lines 950-954) is called once, at start (line
\* 185), with SuperNodeInfoTimeout left zero by NewGraph
NhTableExpire == 0

\* lines 956-961: the graph after the call; the table returned is its nhTable
GetNHTable(G, recalculate, t, ks) ==
    IF recalculate /\ t > NhTableExpire
    THEN RecalculateNhTable(G, FALSE, t, ks).G
    ELSE G

(***************************************************************************)
(* The supernode's maps and its pushes.                                    *)
(***************************************************************************)
\* config.Special_NodeID: every node id below it is an edge node
Special_NodeID == 65533

\* config.SuperNodeMessage, a control address
SuperNodeMessage == Special_NodeID + 1

\* the node ids of the configuration; the public key of a node is its id
Peers == 1..NumPeers

\* http_device4 and http_device6
Transports == {"v4", "v6"}

\* type PeerState struct
PeerState(ls, nh, pi) == [LastSeen |-> ls, NhTableState |-> nh, PeerInfoState |-> pi]

\* lines 473 and 506
IsAlive(ps, t) == ps.LastSeen + NodeReportTimeout > t

\* PushNhTable without the test of lines 473-476
PushNhTableToAll(force, PS, hash, ep, t) ==
    {pkt \in [to : DOMAIN PS, via : Transports, usage : {"UpdateNhTable"}, State_hash : {hash}] :
        /\ force \/ PS[pkt.to].NhTableState # hash
        /\ pkt.via \in ep[pkt.to]}

\* PushNhTable with the test of line 477 negated
PushNhTableUpToDate(force, PS, hash, ep, t) ==
    {pkt \in [to : DOMAIN PS, via : Transports, usage : {"UpdateNhTable"}, State_hash : {hash}] :
        /\ IsAlive(PS[pkt.to], t)
        /\ ~(force \/ PS[pkt.to].NhTableState # hash)
        /\ pkt.via \in ep[pkt.to]}

\* lines 456-487: the packets handed to SendPacket
PushNhTable(force, PS, hash, ep, t) ==
    {pkt \in [to : DOMAIN PS, via : Transports, usage : {"UpdateNhTable"}, State_hash : {hash}] :
        /\ IsAlive(PS[pkt.to], t)
        /\ force \/ PS[pkt.to].NhTableState # hash
        /\ pkt.via \in ep[pkt.to]}

\* lines 489-520: the peer is on both devices, its address is not asked for
PushPeerinfo(force, PS, hash, t) ==
    {pkt \in [to : DOMAIN PS, via : Transports, usage : {"UpdatePeer"}, State_hash : {hash}] :
        /\ IsAlive(PS[pkt.to], t)
        /\ force \/ PS[pkt.to].PeerInfoState # hash}

\* line 378 taken every time
ShouldPushAlways(state, echoed) == TRUE

\* lines 378 and 382
ShouldPush(state, echoed) == state # echoed

\* lines 376-385 without the copies of lines 379 and 383
RegisterStateKeepsHash(ps, m, t) ==
    PeerState(t, ps.NhTableState, ps.PeerInfoState)

\* lines 376-385: the PeerState of the sender after a Register
RegisterState(ps, m, t) ==
    PeerState(t,
              IF ShouldPush(ps.NhTableState, m.NhStateHash) THEN m.NhStateHash
              ELSE ps.NhTableState,
              IF ShouldPush(ps.PeerInfoState, m.PeerStateHash) THEN m.PeerStateHash
              ELSE ps.PeerInfoState)

\* get_api_peers: the hash of the peer list
PeerInfoHash(ids) == Md5(Marshal(ids))

\* the configuration the bounds describe, of a supernode
DefaultConfig ==
    [JitterTolerance |-> JitterTolerance,
     JitterToleranceMultiplier |-> JitterMultiplierPct,
     RecalculateCoolDown |-> RecalculateCoolDown,
     IsSuperMode |-> TRUE,
     StaticMode |-> FALSE]

\* no call of super_peerdel under way
NoPeerDel == [pc |-> "idle"]

\* no assignment of line 709 under way
NoInstall == [pc |-> "idle"]

\* no task holds http_maps_lock; RoutinePushSettings is before PushNhTable
Unlocked == [event |-> "out", push |-> "out", peerdel |-> "out",
             pushing |-> "PushNhTable", force |-> FALSE]

\* the peers ids added by super_peeradd, each with both keys (lines 297-328),
\* under the configuration conf
Configured(ids, conf) ==
    /\ graphConfig = conf
    /\ peerdel = NoPeerDel
    /\ http_device = [x \in Transports |-> ids]
    /\ http_PeerIPs = ids
    /\ fwErr = "none"
    /\ install = NoInstall
    /\ Event_server_pong = <<>>
    /\ timeoutCheck = "register"
    /\ http_maps_lock = Unlocked

\* the NextHopTable of a static configuration: the line 1 - 2 - 3
StaticTable ==
    (1 :> (2 :> 2 @@ 3 :> 2)) @@ (2 :> (1 :> 1 @@ 3 :> 3)) @@ (3 :> (1 :> 2 @@ 2 :> 2))

\* the supernode after Super() has read its configuration (lines 176-227);
\* line 185 installs the NextHopTable of the configuration
SuperStart(ids, conf) ==
    /\ Configured(ids, conf)
    /\ Vert = {}
    /\ edges = <<>>
    /\ dlTable = <<>>
    /\ nhTable = IF conf.StaticMode THEN StaticTable ELSE <<>>
    /\ recalculateTime = ZeroTime
    /\ NhTableHash = ZeroHash
    /\ StaticMode = conf.StaticMode
    /\ http_PeerID2Info = ids
    /\ http_PeerState = [p \in ids |-> PeerState(ZeroTime, ZeroHash, ZeroHash)]
    /\ http_NhTable_Hash = ZeroHash
    /\ http_NhTableStr = NilStr
    /\ http_PeerInfo_hash = ZeroHash
    /\ endpoints = [p \in Peers |-> {}]
    /\ lastRegister = [p \in Peers |-> [seen |-> FALSE]]
    /\ lastSent = {}
    /\ event = [op |-> "start"]
    /\ Event_server_register = <<>>
    /\ wire = {}
    /\ edgeNh = [p \in Peers |-> ZeroHash]

\* the supernode's variables while a graph alone is looked at
SuperIdle(conf) ==
    /\ Configured({}, conf)
    /\ recalculateTime = ZeroTime
    /\ NhTableHash = ZeroHash
    /\ StaticMode = conf.StaticMode
    /\ http_PeerID2Info = {}
    /\ http_PeerState = <<>>
    /\ http_NhTable_Hash = ZeroHash
    /\ http_NhTableStr = NilStr
    /\ http_PeerInfo_hash = ZeroHash
    /\ endpoints = [p \in Peers |-> {}]
    /\ lastRegister = [p \in Peers |-> [seen |-> FALSE]]
    /\ lastSent = {}
    /\ event = [op |-> "start"]
    /\ Event_server_register = <<>>
    /\ wire = {}
    /\ edgeNh = [p \in Peers |-> ZeroHash]

\* no broadcast in flight
FloodIdle ==
    /\ bsrc = NoVertex
    /\ nsent = [n \in Nodes |-> 0]
    /\ inflight = {}

(***************************************************************************)
(* SpecFW: the solver run once on a graph, as Solve does (line 1062), and  *)
(* its tables installed (line 709).  No graph of InitFW has a negative     *)
(* latency, so the retry of line 922 is not run and its order is not drawn.*)
(***************************************************************************)
InitFW ==
    /\ AdditionalCost = [p \in Peers |-> 0]
    /\ phase = "graph"
    /\ now = MaxTime
    /\ \/ IsDirectedGraph(Vert, edges, {0, 1, BigWeight}, TRUE)
       \/ IsSymmetricGraph(Vert, edges)
    /\ dlTable = <<>>
    /\ nhTable = <<>>
    /\ FloodIdle
    /\ SuperIdle(DefaultConfig)

RunFW ==
    /\ phase = "graph"
    /\ \E ks \in Perms(Vert) :
         \E r \in {FloydWarshall(Vert, edges, now, NodeReportTimeout, ks, ks)} :
            /\ dlTable' = r.dist
            /\ nhTable' = r.next
            /\ edges' = r.edges
    /\ phase' = "table"
    /\ UNCHANGED <<now, Vert, floodVars, superVars, convVars, moreVars>>

NextFW == RunFW

SpecFW == InitFW /\ [][NextFW]_vars

(***************************************************************************)
(* Properties of the tables FloydWarshall returns.                         *)
(***************************************************************************)
\* every live latency of the graph is >= 0
NonNegativeGraph ==
    \A u, v \in Vert : Weight(edges, now, NodeReportTimeout, u, v) >= 0

NoRepeat(p) == \A a, b \in 1..Len(p) : p[a] = p[b] => a = b

\* C1: over a graph with no negative live latency, for every pair (u,v) with
\* next[u][v] set, following next from u reaches v within |V|-1 hops and
\* visits no vertex twice, so Path(u,v,next) returns.
C1_PathsEnd ==
    (phase = "table" /\ NonNegativeGraph) =>
        \A u, v \in Vert :
            Next(nhTable, u, v) # NoVertex =>
                LET p == Path(nhTable, u, v)
                IN  /\ p.end = "done"
                    /\ Len(p.nodes) >= 1
                    /\ p.nodes[1] = u
                    /\ p.nodes[Len(p.nodes)] = v
                    /\ Len(p.nodes) - 1 <= Cardinality(Vert) - 1
                    /\ NoRepeat(p.nodes)

\* a route of |V|-1 hops, over every vertex, whose first hop costs nothing
C1_Witness ==
    /\ phase = "table"
    /\ NonNegativeGraph
    /\ \E u, v \in Vert :
          /\ Path(nhTable, u, v).end = "done"
          /\ Len(Path(nhTable, u, v).nodes) = Cardinality(Vert)
          /\ Weight(edges, now, NodeReportTimeout, u, Next(nhTable, u, v)) = 0

(***************************************************************************)
(* A reference for shortest paths: the totals of all walks of at most n    *)
(* live records from u to v, computed from the records themselves.         *)
(***************************************************************************)
RefLive(x, y) ==
    /\ x # y
    /\ HasEdge(edges, x, y)
    /\ now <= edges[x][y].time + NodeReportTimeout

RECURSIVE RefTotals(_, _, _)
RefTotals(u, v, n) ==
    IF n = 0 THEN (IF u = v THEN {0} ELSE {})
    ELSE RefTotals(u, v, n - 1) \cup
         UNION {{t + edges[x][v].ping : t \in RefTotals(u, x, n - 1)} :
                    x \in {y \in Vert : RefLive(y, v)}}

RefPaths(u, v) == RefTotals(u, v, Cardinality(Vert) - 1)

Least(S) == CHOOSE m \in S : \A x \in S : m <= x

\* when next[u][v] = w, dist[u][v] = Weight(u,w) + dist[w][v]
HopsAddUp ==
    \A u, v \in Vert :
        (u # v /\ Next(nhTable, u, v) # NoVertex) =>
            dlTable[u][v] = Weight(edges, now, NodeReportTimeout, u, Next(nhTable, u, v))
                            + dlTable[Next(nhTable, u, v)][v]

C4_ThroughList ==
    phase = "table" =>
        \A self_id, in_id, src_id \in Vert :
            /\ in_id \notin GetBoardcastThroughList(nhTable, self_id, in_id, src_id)
            /\ GetBoardcastThroughList(nhTable, self_id, in_id, src_id)
                  \subseteq GetBoardcastList(nhTable, self_id)

\* self is on the route from src to in, in is a next hop of self, and the
\* through list holds some other node
C4_Witness ==
    /\ phase = "table"
    /\ \E self_id, in_id, src_id \in Vert :
          /\ self_id # in_id
          /\ in_id \in GetBoardcastList(nhTable, self_id)
          /\ \E n \in 1..Len(Path(nhTable, src_id, in_id).nodes) :
                Path(nhTable, src_id, in_id).nodes[n] = self_id
          /\ GetBoardcastThroughList(nhTable, self_id, in_id, src_id) # {}

\* the clique on A = 1, B = 2, C = 3, D = 4 with every latency 1
UnitClique ==
    /\ Vert = 1..4
    /\ \A u, v \in Vert : u # v => (RefLive(u, v) /\ edges[u][v].ping = 1)

\* C5 as stated: in the 4-clique with all latencies 1,
\* GetBoardcastThroughList(B, A, A) = {C, D} and
\* GetBoardcastThroughList(C, B, A) = {}.
C5_Original ==
    (phase = "table" /\ UnitClique) =>
        /\ GetBoardcastThroughList(nhTable, 2, 1, 1) = {3, 4}
        /\ GetBoardcastThroughList(nhTable, 3, 2, 1) = {}

\* C5 (amended): in the 4-clique with all latencies 1,
\* GetBoardcastThroughList(B, A, A) is empty (C and D are next hops of A
\* itself, B is on neither route) and GetBoardcastThroughList(C, B, A) is
\* empty.
C5_CliqueForwardsNothing ==
    (phase = "table" /\ UnitClique) =>
        /\ GetBoardcastList(nhTable, 1) = {2, 3, 4}
        /\ GetBoardcastThroughList(nhTable, 2, 1, 1) = {}
        /\ GetBoardcastThroughList(nhTable, 3, 2, 1) = {}

C5_Witness ==
    /\ phase = "table"
    /\ UnitClique
    /\ GetBoardcastList(nhTable, 2) = {1, 3, 4}
    /\ GetBoardcastThroughList(nhTable, 2, 1, 1) = {}


(***************************************************************************)
(* SpecFlood: a broadcast flooded over nodes that all hold the table the   *)
(* solver returned.  The source sends to GetBoardcastList(source); a node  *)
(* n that receives a copy from its neighbour in sends one to every node of *)
(* GetBoardcastThroughList(n, in, source).  Copies sent to a node are      *)
(* counted up to MaxCopies.                                                *)
(***************************************************************************)
MaxCopies == 2

InitFlood ==
    /\ AdditionalCost = [p \in Peers |-> 0]
    /\ phase = "graph"
    /\ now = MaxTime
    /\ \/ IsDirectedGraph(Vert, edges, {0, 1}, FALSE)
       \/ IsSymmetricGraph(Vert, edges)
    /\ dlTable = <<>>
    /\ nhTable = <<>>
    /\ FloodIdle
    /\ SuperIdle(DefaultConfig)

SendTo(targets, from) ==
    /\ nsent' = [n \in Nodes |-> IF n \in targets /\ nsent[n] < MaxCopies
                                 THEN nsent[n] + 1 ELSE nsent[n]]
    /\ inflight' = (inflight \ {<<from[1], from[2]>>}) \cup {<<c, from[1]>> : c \in targets}

StartBroadcast(s) ==
    /\ phase = "table"
    /\ phase' = "flood"
    /\ bsrc' = s
    /\ SendTo(GetBoardcastList(nhTable, s), <<s, NoVertex>>)
    /\ UNCHANGED <<graphVars, superVars, convVars, moreVars>>

Forward(m) ==
    /\ phase = "flood"
    /\ SendTo(GetBoardcastThroughList(nhTable, m[1], m[2], bsrc), m)
    /\ UNCHANGED <<phase, bsrc, graphVars, superVars, convVars, moreVars>>

NextFlood ==
    \/ RunFW
    \/ \E s \in Vert : StartBroadcast(s)
    \/ \E m \in inflight : Forward(m)

SpecFlood == InitFlood /\ [][NextFlood]_vars

\* C3: with every node holding the same table computed by FloydWarshall over
\* latencies >= 0, no node is sent the broadcast more than once and the
\* source is never sent it (so at most |V|-1 copies are sent and the flood
\* ends).
C3_FloodOnce ==
    (phase = "flood" /\ NonNegativeGraph) =>
        /\ \A n \in Nodes : nsent[n] <= 1
        /\ nsent[bsrc] = 0

\* the same over graphs in which no vertex has a record to itself
C3_FloodOnceNoSelfEdge ==
    (phase = "flood" /\ NonNegativeGraph /\ \A u \in Vert : ~HasEdge(edges, u, u)) =>
        /\ \A n \in Nodes : nsent[n] <= 1
        /\ nsent[bsrc] = 0

(***************************************************************************)
(* Spec: the supernode.  The event loop Event_server_event_hendler takes   *)
(* one message at a time from its two channels and handles it to the end;  *)
(* RoutinePushSettings pushes once a second; RoutineTimeoutCheck is the    *)
(* sender of the messages whose node id is SuperNodeMessage.               *)
(***************************************************************************)
IG == [Vert |-> Vert, edges |-> edges, dlTable |-> dlTable, nhTable |-> nhTable,
       recalculateTime |-> recalculateTime, NhTableHash |-> NhTableHash,
       StaticMode |-> StaticMode] @@ graphConfig

\* the graph and the two values the event loop keeps of its table
Published == [G |-> IG, hash |-> http_NhTable_Hash, str |-> http_NhTableStr]

InstallPublished(S) ==
    /\ Vert' = S.G.Vert
    /\ edges' = S.G.edges
    /\ dlTable' = S.G.dlTable
    /\ nhTable' = S.G.nhTable
    /\ recalculateTime' = S.G.recalculateTime
    /\ NhTableHash' = S.G.NhTableHash
    /\ http_NhTable_Hash' = S.hash
    /\ http_NhTableStr' = S.str

igVars == <<Vert, edges, dlTable, nhTable, recalculateTime, NhTableHash>>

\* path.RegisterMsg: an edge echoes no hash yet, or the hash the supernode
\* publishes
RegisterMsgs ==
    [Node_id : Peers \cup {SuperNodeMessage},
     NhStateHash : {ZeroHash, http_NhTable_Hash},
     PeerStateHash : {ZeroHash, http_PeerInfo_hash}]

\* path.PongMsg
Pong(src, dst, dt) == [Src_nodeID |-> src, Dst_nodeID |-> dst, Timediff |-> dt]

\* a measurement between two edge nodes, or the message of
\* RoutineTimeoutCheck (lines 447-451)
PongMsgs ==
    {Pong(p[1], p[2], dt) : p \in DirectedPairs(Peers), dt \in 1..MaxDelay}
    \cup {Pong(SuperNodeMessage, SuperNodeMessage, 0)}

\* the configuration lists every node, or all but the last
Init ==
    /\ AdditionalCost = [p \in Peers |-> 0]
    /\ phase = "run"
    /\ now = 0
    /\ FloodIdle
    /\ \E n \in {NumPeers - 1, NumPeers} : SuperStart(1..n, DefaultConfig)

\* lines 371-398.  A Register of a configured node came in over a transport,
\* which recorded the address it came from.
RegisterEffects(m) ==
    /\ phase = "run"
    /\ m.Node_id \in http_PeerID2Info => endpoints[m.Node_id] # {}
    /\ IF m.Node_id < Special_NodeID /\ m.Node_id \notin http_PeerID2Info
       THEN \* line 376: http_PeerState[""] is a nil *PeerState
            /\ phase' = "panic"
            /\ lastSent' = {}
            /\ event' = [op |-> "register", Node_id |-> m.Node_id]
            /\ UNCHANGED <<http_PeerState, http_PeerInfo_hash, lastRegister>>
       ELSE LET edge == m.Node_id < Special_NodeID
                old  == IF edge THEN http_PeerState[m.Node_id]
                        ELSE PeerState(ZeroTime, ZeroHash, ZeroHash)
                PS   == IF edge
                        THEN [http_PeerState EXCEPT ![m.Node_id] = RegisterState(old, m, now)]
                        ELSE http_PeerState
                should_push_nh   == edge /\ ShouldPush(old.NhTableState, m.NhStateHash)
                should_push_peer == edge /\ ShouldPush(old.PeerInfoState, m.PeerStateHash)
                hash == PeerInfoHash(http_PeerID2Info)
                peer_state_changed == hash # http_PeerInfo_hash
            IN  /\ http_PeerState' = PS
                /\ http_PeerInfo_hash' = hash
                /\ lastSent' =
                      (IF should_push_peer \/ peer_state_changed
                       THEN PushPeerinfo(FALSE, PS, hash, now) ELSE {})
                      \cup
                      (IF should_push_nh
                       THEN PushNhTable(FALSE, PS, http_NhTable_Hash, endpoints, now)
                       ELSE {})
                /\ lastRegister' =
                      IF edge
                      THEN [lastRegister EXCEPT ![m.Node_id] =
                              [seen |-> TRUE, NhStateHash |-> m.NhStateHash,
                               PeerStateHash |-> m.PeerStateHash, at |-> now]]
                      ELSE lastRegister
                /\ event' = [op |-> "register", Node_id |-> m.Node_id,
                             was_alive |-> IsAlive(old, now),
                             nh_new |-> (old.NhTableState # m.NhStateHash),
                             peer_new |-> (old.PeerInfoState # m.PeerStateHash),
                             peer_state_changed |-> peer_state_changed]
                /\ phase' = phase

HandleRegister(m) ==
    /\ RegisterEffects(m)
    /\ UNCHANGED <<now, igVars, floodVars, StaticMode, http_PeerID2Info,
                   http_NhTable_Hash, http_NhTableStr, endpoints, moreVars>>

\* the vertices of the graph when the solver runs for the Pong m
VertAfter(V, m) ==
    IF m.Src_nodeID < Special_NodeID /\ m.Dst_nodeID < Special_NodeID
    THEN V \cup {m.Src_nodeID, m.Dst_nodeID}
    ELSE V

\* lines 402-408: [G, changed].  The call of line 403 passes the
\* AdditionalCost of the destination as well; UpdateLatency (line 730) has no
\* parameter for it and no field of Latency keeps it.
PongGraph(G, m, t, ks) ==
    IF m.Src_nodeID < Special_NodeID /\ m.Dst_nodeID < Special_NodeID
    THEN UpdateLatency(G, m.Src_nodeID, m.Dst_nodeID, m.Timediff, TRUE, TRUE, t, ks)
    ELSE IF CheckAnyShouldUpdate(G, t)
         THEN RecalculateNhTable(G, TRUE, t, ks)
         ELSE [G |-> G, changed |-> FALSE]

\* lines 411-418: what is published for the graph G left by a Pong that
\* changed the table; line 413 takes the hash of the text kept in
\* http_NhTableStr, line 418 replaces that text afterwards
Publish(S, G, t, ks) ==
    LET T == GetNHTable(G, TRUE, t, ks)
        new_hash == Md5(S.str)
    IN  [G |-> [T EXCEPT !.NhTableHash = new_hash],
         hash |-> new_hash,
         str |-> Marshal(T.nhTable)]

\* lines 399-418 on the values S: [G, hash, str, changed]
PongStep(S, m, t, ks) ==
    CHOOSE R \in
      {IF r.changed
       THEN [changed |-> TRUE] @@ Publish(S, r.G, t, ks)
       ELSE [changed |-> FALSE, G |-> r.G, hash |-> S.hash, str |-> S.str] :
       r \in {PongGraph(S.G, m, t, ks)}} : TRUE

\* lines 399-420
HandlePong(m) ==
    /\ phase = "run"
    /\ \E ks \in Perms(VertAfter(Vert, m)) : \E r \in {PongStep(Published, m, now, ks)} :
          /\ InstallPublished(r)
          /\ lastSent' = IF r.changed
                         THEN PushNhTable(FALSE, http_PeerState, r.hash, endpoints, now)
                         ELSE {}
          /\ event' = [op |-> "pong", changed |-> r.changed]
    /\ UNCHANGED <<phase, now, floodVars, StaticMode, http_PeerID2Info, http_PeerState,
                   http_PeerInfo_hash, endpoints, lastRegister, convVars, moreVars>>

\* lines 425-439, one round
RoutinePushSettings(force) ==
    /\ phase = "run"
    /\ lastSent' = PushNhTable(force, http_PeerState, http_NhTable_Hash, endpoints, now)
                   \cup PushPeerinfo(force, http_PeerState, http_PeerInfo_hash, now)
    /\ event' = [op |-> "push", force |-> force]
    /\ UNCHANGED <<phase, now, igVars, floodVars, StaticMode, http_PeerID2Info,
                   http_PeerState, http_NhTable_Hash, http_NhTableStr,
                   http_PeerInfo_hash, endpoints, lastRegister, moreVars>>

\* a device takes a packet of peer p on transport x and records where it
\* came from (the peers of the supernode are not static, lines 301 and 318)
ReceivePacket(p, x) ==
    /\ phase = "run"
    /\ p \in http_PeerID2Info
    /\ x \notin endpoints[p]
    /\ endpoints' = [endpoints EXCEPT ![p] = @ \cup {x}]
    /\ lastSent' = {}
    /\ event' = [op |-> "packet"]
    /\ UNCHANGED <<phase, now, igVars, floodVars, StaticMode, http_PeerID2Info,
                   http_PeerState, http_NhTable_Hash, http_NhTableStr,
                   http_PeerInfo_hash, lastRegister, convVars, moreVars>>

\* time passes, up to the instant max
Clock(max) ==
    /\ phase = "run"
    /\ now < max
    /\ now' = now + 1
    /\ lastSent' = {}
    /\ event' = [op |-> "tick"]
    /\ UNCHANGED <<phase, igVars, floodVars, StaticMode, http_PeerID2Info,
                   http_PeerState, http_NhTable_Hash, http_NhTableStr,
                   http_PeerInfo_hash, endpoints, lastRegister, convVars, moreVars>>

Tick == Clock(MaxTick)

\* the event loop takes a Register from its channel
Register == \E m \in RegisterMsgs : HandleRegister(m) /\ UNCHANGED convVars

\* the once-a-second round of RoutinePushSettings
PushRound == \E force \in BOOLEAN : RoutinePushSettings(force) /\ UNCHANGED convVars

NextSuper ==
    \/ Register
    \/ \E m \in PongMsgs : HandlePong(m)
    \/ PushRound
    \/ \E p \in Peers, x \in Transports : ReceivePacket(p, x)
    \/ Tick

Spec == Init /\ [][NextSuper]_vars

(***************************************************************************)
(* Claims about the supernode, checked under Spec.                         *)
(***************************************************************************)
\* the last step sent p a packet of this usage
SentTo(p, usage) == \E pkt \in lastSent : pkt.to = p /\ pkt.usage = usage

\* C7: whenever the event loop has finished handling a Pong that changed the
\* next-hop table, http_NhTable_Hash and graph.NhTableHash are the hash of
\* the serialization of the table now installed.
C7_HashOfInstalledTable ==
    (event.op = "pong" /\ event.changed) =>
        /\ http_NhTable_Hash = Md5(Marshal(nhTable))
        /\ NhTableHash = Md5(Marshal(nhTable))

\* C8: for every configured edge from which a Register was handled, the
\* NhTableState and the PeerInfoState kept for it are the hashes its most
\* recent Register carried, and LastSeen is the instant that Register was
\* handled, whether or not the hashes were new.
C8_StateOfLastRegister ==
    \A p \in DOMAIN http_PeerState :
        lastRegister[p].seen =>
            /\ http_PeerState[p].NhTableState = lastRegister[p].NhStateHash
            /\ http_PeerState[p].PeerInfoState = lastRegister[p].PeerStateHash
            /\ http_PeerState[p].LastSeen = lastRegister[p].at

\* a later Register of an edge, at a later instant, took the edge's kept
\* next-hop hash back to zero while its peer-info hash stayed what it was
C8_Witness ==
    /\ event.op = "register"
    /\ event.Node_id \in DOMAIN http_PeerState
    /\ event.nh_new
    /\ ~event.peer_new
    /\ ~event.was_alive
    /\ http_PeerState[event.Node_id].NhTableState = ZeroHash
    /\ http_PeerState[event.Node_id].PeerInfoState # ZeroHash
    /\ http_PeerState[event.Node_id].LastSeen = now

Forced == event.op = "push" /\ event.force

\* the last step called PushNhTable
CalledPushNhTable ==
    \/ event.op = "push"
    \/ event.op = "pong" /\ event.changed

\* C10: PushNhTable(force) sends peer p an UpdateNhTable if and only if p is
\* live and force is set or the NhTableState kept for p differs from the
\* current hash; every UpdateNhTable goes to a live peer over a transport on
\* which the peer's address is known.
C10_PushTargets ==
    /\ CalledPushNhTable =>
          \A p \in DOMAIN http_PeerState :
              SentTo(p, "UpdateNhTable") <=>
                  /\ IsAlive(http_PeerState[p], now)
                  /\ Forced \/ http_PeerState[p].NhTableState # http_NhTable_Hash
    /\ \A pkt \in lastSent :
          pkt.usage = "UpdateNhTable" =>
              /\ IsAlive(http_PeerState[pkt.to], now)
              /\ pkt.via \in endpoints[pkt.to]
              /\ pkt.State_hash = http_NhTable_Hash

\* a forced push goes to a live peer over the one transport its address is
\* known on, and not to a configured peer that never registered
C10_Witness ==
    /\ Forced
    /\ \E p \in DOMAIN http_PeerState :
          /\ http_PeerState[p].LastSeen = ZeroTime
          /\ ~SentTo(p, "UpdateNhTable")
    /\ \E q \in DOMAIN http_PeerState :
          /\ endpoints[q] # Transports
          /\ http_PeerState[q].NhTableState = http_NhTable_Hash
          /\ SentTo(q, "UpdateNhTable")

(***************************************************************************)
(* SpecConv: one push cycle.  The table of the supernode is settled (no    *)
(* Pong changes it any more) and the clock stands still: the cycle is over *)
(* before NodeReportTimeout has passed.  The edges are outside this        *)
(* repository; an edge that is up sends its Register again and again, one  *)
(* at a time, echoing the hash it holds, and on an UpdateNhTable whose     *)
(* hash is not the one it holds fetches the table and holds that hash.     *)
(***************************************************************************)
\* the supernode when Super() starts its routines
StartPublished ==
    [G |-> [Vert |-> {}, edges |-> <<>>, dlTable |-> <<>>, nhTable |-> <<>>,
            recalculateTime |-> ZeroTime, NhTableHash |-> ZeroHash,
            StaticMode |-> FALSE] @@ DefaultConfig,
     hash |-> ZeroHash,
     str |-> NilStr]

\* what the event loop leaves after the Pongs ms, handled at instant t
RECURSIVE AfterPongs(_, _, _)
AfterPongs(S, ms, t) ==
    IF ms = <<>> THEN S
    ELSE CHOOSE R \in
           {AfterPongs(S2, Tail(ms), t) :
            S2 \in {PongStep(S, Head(ms), t,
                             Ascending(VertAfter(S.G.Vert, Head(ms))))}} : TRUE

\* the measurements that settled the table
PongRun == <<Pong(1, 2, 1), Pong(2, 1, 1)>>

\* hashes an edge may hold of earlier tables
StaleHashes == {ZeroHash, StaleHash, Md5(NilStr)}

InitConv ==
    /\ AdditionalCost = [p \in Peers |-> 0]
    /\ phase = "run"
    /\ now = 0
    /\ FloodIdle
    /\ Configured(Peers, DefaultConfig)
    /\ StaticMode = FALSE
    /\ \E n \in 0..Len(PongRun) :
         \E S \in {AfterPongs(StartPublished, SubSeq(PongRun, 1, n), 0)} :
            /\ Vert = S.G.Vert
            /\ edges = S.G.edges
            /\ dlTable = S.G.dlTable
            /\ nhTable = S.G.nhTable
            /\ recalculateTime = S.G.recalculateTime
            /\ NhTableHash = S.G.NhTableHash
            /\ http_NhTable_Hash = S.hash
            /\ http_NhTableStr = S.str
    /\ http_PeerID2Info = Peers
    /\ http_PeerInfo_hash = PeerInfoHash(Peers)
    /\ \E up \in SUBSET Peers :
         \E st \in [up -> StaleHashes \ {http_NhTable_Hash}],
            ep \in [up -> SUBSET Transports \ {{}}] :
            /\ up # {}
            /\ http_PeerState =
                  [p \in Peers |->
                      IF p \in up THEN PeerState(0, st[p], PeerInfoHash(Peers))
                      ELSE PeerState(ZeroTime, ZeroHash, ZeroHash)]
            /\ endpoints = [p \in Peers |-> IF p \in up THEN ep[p] ELSE {}]
            /\ edgeNh = [p \in Peers |-> IF p \in up THEN st[p] ELSE ZeroHash]
            /\ lastRegister =
                  [p \in Peers |->
                      IF p \in up
                      THEN [seen |-> TRUE, NhStateHash |-> st[p],
                            PeerStateHash |-> PeerInfoHash(Peers), at |-> 0]
                      ELSE [seen |-> FALSE]]
    /\ lastSent = {}
    /\ event = [op |-> "start"]
    /\ Event_server_register = <<>>
    /\ wire = {}

NhPushes(sent) == {pkt \in sent : pkt.usage = "UpdateNhTable"}

\* the edge p, up, sends a Register; its last one has been handled
EdgeRegister(p) ==
    /\ phase = "run"
    /\ endpoints[p] # {}
    /\ \A n \in 1..Len(Event_server_register) : Event_server_register[n].Node_id # p
    /\ Event_server_register' =
          Append(Event_server_register,
                 [Node_id |-> p, NhStateHash |-> edgeNh[p],
                  PeerStateHash |-> http_PeerInfo_hash])
    /\ UNCHANGED <<phase, graphVars, floodVars, superVars, wire, edgeNh, moreVars>>

\* an UpdateNhTable reaches its edge; GET /api/nhtable answers a request
\* whose State is the published hash
EdgeReceive(pkt) ==
    /\ pkt \in wire
    /\ wire' = wire \ {pkt}
    /\ edgeNh' = IF edgeNh[pkt.to] # pkt.State_hash /\ pkt.State_hash = http_NhTable_Hash
                 THEN [edgeNh EXCEPT ![pkt.to] = pkt.State_hash]
                 ELSE edgeNh
    /\ UNCHANGED <<phase, graphVars, floodVars, superVars, Event_server_register, moreVars>>

\* delivery to the edge p
EdgeReceives(p) == \E pkt \in wire : pkt.to = p /\ EdgeReceive(pkt)

\* the event loop takes the Register at the head of its channel
TakeRegister ==
    /\ Event_server_register # <<>>
    /\ HandleRegister(Head(Event_server_register))
    /\ Event_server_register' = Tail(Event_server_register)
    /\ wire' = wire \cup NhPushes(lastSent')
    /\ UNCHANGED edgeNh

\* a round of RoutinePushSettings, its packets sent off
PushRoundSent ==
    \E force \in BOOLEAN :
        /\ RoutinePushSettings(force)
        /\ wire' = wire \cup NhPushes(lastSent')
        /\ UNCHANGED <<Event_server_register, edgeNh>>

NextConv ==
    \/ TakeRegister
    \/ PushRoundSent
    \/ \E p \in Peers : EdgeRegister(p)
    \/ \E p \in Peers : EdgeReceives(p)

\* the event loop runs, the edges keep registering, packets arrive
SpecConv ==
    /\ InitConv
    /\ [][NextConv]_vars
    /\ WF_vars(TakeRegister)
    /\ \A p \in Peers : WF_vars(EdgeRegister(p))
    /\ \A p \in Peers : WF_vars(EdgeReceives(p))

Live == {p \in DOMAIN http_PeerState : IsAlive(http_PeerState[p], now)}

Converged == \A p \in Live : http_PeerState[p].NhTableState = http_NhTable_Hash

\* C6: after a forced PushNhTable, and the Registers the edges send in
\* response, the NhTableState kept for every live edge is the current
\* NhTableHash, and stays so.
C6_Convergence == Forced ~> []Converged

\* a forced push has gone out to every edge, all live, all holding and
\* acknowledging a stale hash
C6_Witness ==
    /\ Forced
    /\ Live = Peers
    /\ \A p \in Peers :
          /\ http_PeerState[p].NhTableState # http_NhTable_Hash
          /\ edgeNh[p] # http_NhTable_Hash
          /\ SentTo(p, "UpdateNhTable")

(***************************************************************************)
(* SpecDel: super_peerdel, called by the HTTP API for a node of            *)
(* http_PeerID2Info, one call at a time, while the event loop goes on      *)
(* handling Pongs and the clock runs.  The call is a task of its own: it   *)
(* sleeps between its sends and holds http_maps_lock only around its read  *)
(* of line 333 and its deletes of lines 362-364.                           *)
(***************************************************************************)
\* line 341: the bound of the loop
ShutdownRepeats == 10

\* lines 351-355 with device.SendPacket returning at a nil peer: only
\* http_device4 is sent on
UpdateErrorTargetsV4(D, PubKey) == {x \in {"v4"} : PubKey \in D[x]}

\* lines 351-355 with device.SendPacket returning at a nil peer: the devices
\* that send the packet
UpdateErrorTargets(D, PubKey) == {x \in Transports : PubKey \in D[x]}

\* lines 715-728: [G, changed]
RemoveVirt(G, v, recalculate, checkchange, t, ks) ==
    LET E1 == [u \in DOMAIN G.edges \ {v} |->
                  [w \in DOMAIN G.edges[u] \ {v} |-> G.edges[u][w]]]
        G1 == [G EXCEPT !.Vert = @ \ {v}, !.edges = E1, !.NhTableHash = ZeroHash]
    IN  IF recalculate THEN RecalculateNhTable(G1, checkchange, t, ks)
        ELSE [G |-> G1, changed |-> FALSE]

delFrame == <<phase, now, floodVars, convVars, StaticMode, lastRegister, lastSent,
              http_PeerInfo_hash, endpoints, graphConfig, AdditionalCost, fwErr, taskVars,
              http_NhTable_Hash, http_NhTableStr>>

\* lines 332-340
PeerDelStart(toDelete) ==
    /\ phase = "run"
    /\ peerdel.pc \in {"idle", "returned"}
    /\ toDelete \in http_PeerID2Info
    /\ peerdel' = [pc |-> "send", toDelete |-> toDelete, PubKey |-> toDelete, i |-> 0,
                   sent |-> [x \in Transports |-> 0]]
    /\ event' = [op |-> "peerdel"]
    /\ UNCHANGED <<delFrame, igVars, http_PeerID2Info, http_PeerState, http_device,
                   http_PeerIPs>>

\* lines 341-357, one round of the loop and its test
PeerDelSend ==
    /\ peerdel.pc = "send"
    /\ peerdel.i < ShutdownRepeats
    /\ peerdel' = [peerdel EXCEPT
                     !.i = @ + 1,
                     !.sent = [x \in Transports |->
                                 IF x \in UpdateErrorTargets(http_device, peerdel.PubKey)
                                 THEN @[x] + 1 ELSE @[x]],
                     !.pc = IF peerdel.i + 1 < ShutdownRepeats THEN "send" ELSE "devices"]
    /\ event' = [op |-> "peerdel"]
    /\ UNCHANGED <<delFrame, igVars, http_PeerID2Info, http_PeerState, http_device,
                   http_PeerIPs>>

\* lines 358-359
PeerDelRemovePeers ==
    /\ peerdel.pc = "devices"
    /\ http_device' = [x \in Transports |-> http_device[x] \ {peerdel.toDelete}]
    /\ peerdel' = [peerdel EXCEPT !.pc = "graph"]
    /\ event' = [op |-> "peerdel"]
    /\ UNCHANGED <<delFrame, igVars, http_PeerID2Info, http_PeerState, http_PeerIPs>>

\* line 360
PeerDelRemoveVirt ==
    /\ peerdel.pc = "graph"
    /\ \E ks \in Perms(Vert \ {peerdel.toDelete}) :
         \E r \in {RemoveVirt(IG, peerdel.toDelete, TRUE, FALSE, now, ks)} :
            /\ Vert' = r.G.Vert
            /\ edges' = r.G.edges
            /\ dlTable' = r.G.dlTable
            /\ nhTable' = r.G.nhTable
            /\ recalculateTime' = r.G.recalculateTime
            /\ NhTableHash' = r.G.NhTableHash
    /\ peerdel' = [peerdel EXCEPT !.pc = "maps"]
    /\ event' = [op |-> "peerdel"]
    /\ UNCHANGED <<delFrame, http_PeerID2Info, http_PeerState, http_device, http_PeerIPs>>

\* lines 361-366
PeerDelMaps ==
    /\ peerdel.pc = "maps"
    /\ http_PeerState' = [k \in DOMAIN http_PeerState \ {peerdel.PubKey} |-> http_PeerState[k]]
    /\ http_PeerIPs' = http_PeerIPs \ {peerdel.PubKey}
    /\ http_PeerID2Info' = http_PeerID2Info \ {peerdel.toDelete}
    /\ peerdel' = [peerdel EXCEPT !.pc = "returned"]
    /\ event' = [op |-> "peerdel"]
    /\ UNCHANGED <<delFrame, igVars, http_device>>

NextDel ==
    \/ \E v \in Peers : PeerDelStart(v)
    \/ PeerDelSend
    \/ PeerDelRemovePeers
    \/ PeerDelRemoveVirt
    \/ PeerDelMaps
    \/ \E m \in PongMsgs : HandlePong(m)
    \/ Tick

SpecDel == Init /\ [][NextDel]_vars

\* the node of the call under way is in both devices and in the three maps
Registered(v) ==
    /\ \A x \in Transports : v \in http_device[x]
    /\ v \in http_PeerID2Info
    /\ v \in DOMAIN http_PeerState
    /\ v \in http_PeerIPs

\* the node of the call is in no device, not in the graph, in no map
Absent(v) ==
    /\ \A x \in Transports : v \notin http_device[x]
    /\ v \notin Vert
    /\ v \notin DOMAIN edges
    /\ \A u \in DOMAIN edges : v \notin DOMAIN edges[u]
    /\ v \notin http_PeerID2Info
    /\ v \notin DOMAIN http_PeerState
    /\ v \notin http_PeerIPs

\* C11: super_peerdel(v) sends exactly 10 UpdateErrorMsg to v on each
\* endpoint; while it is sending, v is still a registered peer, and v leaves
\* the devices, the graph and the maps only after the tenth was sent: at
\* every later position of the call each device has sent 10, no more.
C11_TenThenRemoved ==
    /\ peerdel.pc = "send" =>
          /\ Registered(peerdel.toDelete)
          /\ \A x \in Transports : peerdel.sent[x] = peerdel.i /\ peerdel.i < ShutdownRepeats
    /\ peerdel.pc \in {"devices", "graph", "maps", "returned"} =>
          \A x \in Transports : peerdel.sent[x] = 10
    /\ (peerdel.pc # "idle" /\ ~Registered(peerdel.toDelete)) =>
          /\ peerdel.pc \in {"graph", "maps", "returned"}
          /\ \A x \in Transports : peerdel.sent[x] = 10

\* the tenth message is out on both devices and v, still registered, is
\* about to be removed
C11_Witness ==
    /\ peerdel.pc = "devices"
    /\ \A x \in Transports : peerdel.sent[x] = 10
    /\ Registered(peerdel.toDelete)

\* C12: after super_peerdel(v) returns, v is in neither transport, not a
\* vertex of the graph, on no edge, and in none of the three maps.
C12_AbsentOnReturn ==
    (peerdel.pc = "returned" /\ event.op = "peerdel") => Absent(peerdel.toDelete)

(***************************************************************************)
(* SpecShould: ShouldUpdate applied once, to an edge whose ping_old is y   *)
(* and a measurement x, under a configuration of NewGraph.                 *)
(***************************************************************************)
\* JitterTolerance (milliseconds), JitterToleranceMultiplier (hundredths)
\* and the mode of the configurations looked at
JitterConfigs ==
    [JitterTolerance : {0, 1, 2, 5},
     JitterToleranceMultiplier : {100, 150, 200},
     RecalculateCoolDown : {RecalculateCoolDown},
     IsSuperMode : BOOLEAN,
     StaticMode : {FALSE}]

\* the values of ping_old and of the measurement, in milliseconds
Measurements == {0, 1, 2, 3, 4, 5, 20, 21, 22, 40}

InitShould ==
    /\ AdditionalCost = [p \in Peers |-> 0]
    /\ phase = "input"
    /\ now = 0
    /\ FloodIdle
    /\ \E conf \in JitterConfigs : SuperIdle(conf)
    /\ Vert = {1, 2}
    /\ \E y \in Measurements : edges = (1 :> (2 :> Latency(y, y, 0)))
    /\ dlTable = <<>>
    /\ nhTable = <<>>

CallShouldUpdate ==
    /\ phase = "input"
    /\ phase' = "output"
    /\ \E x \in Measurements :
          event' = [op |-> "ShouldUpdate", newval |-> x, ret |-> ShouldUpdate(IG, 1, 2, x)]
    /\ UNCHANGED <<graphVars, floodVars, convVars, moreVars, recalculateTime, NhTableHash,
                   http_PeerID2Info, http_PeerState, http_NhTable_Hash, http_NhTableStr,
                   http_PeerInfo_hash, endpoints, StaticMode, lastRegister, lastSent>>

SpecShould == InitShould /\ [][CallShouldUpdate]_vars

\* C15: in supernode mode, for every old y and new x and every configured
\* t >= 0 and r >= 1, ShouldUpdate holds iff |x - y| > t + max(x,y)*(r-1);
\* with t = 0 and r = 1, exactly when x differs from y.
C15_SuperTolerance ==
    (phase = "output" /\ graphConfig.IsSuperMode) =>
        LET y == edges[1][2].ping_old
            x == event.newval
            t == graphConfig.JitterTolerance
            r == graphConfig.JitterToleranceMultiplier
        IN  event.ret <=> (Abs(x - y) * 100 > t * 100 + Max(x, y) * (r - 100))

\* Q(v) = ceil((v/t)^(1/r))^r * t for r = p/q, t > 0: Q(v) and Q(w) differ
\* iff ceil((v/t)^(1/r)) and ceil((w/t)^(1/r)) do; ceil((v/t)^(1/r)) <= n iff
\* v^q <= n^p * t^q
SameBucket(v, w, t, p, q) ==
    \A n \in 0..Max(v, w) :
        (Power(v, q) <= Power(n, p) * Power(t, q)) <=> (Power(w, q) <= Power(n, p) * Power(t, q))

\* C16: in edge (P2P) mode, for every y, x and configured t > 0, r >= 1,
\* ShouldUpdate holds iff Q(y) # Q(x), Q(v) = ceil((v/t)^(1/r))^r * t, which
\* for r = 1 is ceil(v/t) * t.
C16_EdgeQuantization ==
    (phase = "output" /\ ~graphConfig.IsSuperMode /\ graphConfig.JitterTolerance > 0) =>
        LET y == edges[1][2].ping_old
            x == event.newval
            t == graphConfig.JitterTolerance
            r == graphConfig.JitterToleranceMultiplier
            d == Gcd(r, 100)
        IN  event.ret <=> ~SameBucket(y, x, t, r \div d, 100 \div d)

(***************************************************************************)
(* SpecJitter: the event loop of a supernode fed measurements that differ  *)
(* by up to two milliseconds, with and without a jitter tolerance and a    *)
(* cooldown.  RoutineTimeoutCheck keeps sending its message and the clock  *)
(* keeps running.                                                          *)
(***************************************************************************)
\* the largest time difference (milliseconds) a Pong of SpecJitter reports
MaxJitterDelay == 3

\* the message of RoutineTimeoutCheck (lines 447-451)
TimeoutMsg == Pong(SuperNodeMessage, SuperNodeMessage, 0)

JitterPongs ==
    {Pong(p[1], p[2], dt) : p \in DirectedPairs(Peers), dt \in 1..MaxJitterDelay}

InitJitter ==
    /\ AdditionalCost = [p \in Peers |-> 0]
    /\ phase = "run"
    /\ now = 0
    /\ FloodIdle
    /\ \E conf \in [JitterTolerance : {0, JitterTolerance},
                    JitterToleranceMultiplier : {JitterMultiplierPct},
                    RecalculateCoolDown : {RecalculateCoolDown, RecalculateCoolDown + 1},
                    IsSuperMode : {TRUE},
                    StaticMode : {FALSE}] :
          SuperStart(Peers, conf)

\* RoutineTimeoutCheck's message is handled
TimeoutCheck == HandlePong(TimeoutMsg)

NextJitter ==
    \/ \E m \in JitterPongs : HandlePong(m)
    \/ TimeoutCheck
    \/ Clock(MaxTime)

SpecJitter ==
    /\ InitJitter
    /\ [][NextJitter]_vars
    /\ WF_vars(TimeoutCheck)
    /\ WF_vars(Clock(MaxTime))

\* x is within the tolerance of the ping_old of the edge (u, v)
WithinTolerance(u, v, x) ==
    /\ HasEdge(edges, u, v)
    /\ Abs(x - edges[u][v].ping_old) - graphConfig.JitterTolerance <=
          (Max(x, edges[u][v].ping_old) * (graphConfig.JitterToleranceMultiplier - 100))
              \div 100

\* every measurement so far stayed within tolerance and no edge is stale
Settled ==
    \A u \in DOMAIN edges : \A v \in DOMAIN edges[u] :
        /\ WithinTolerance(u, v, edges[u][v].ping)
        /\ now <= edges[u][v].time + NodeReportTimeout

\* no run of the solver: the tables, the instant of the last run and every
\* ping_old are as they were
NoSolverRun ==
    /\ nhTable' = nhTable
    /\ dlTable' = dlTable
    /\ recalculateTime' = recalculateTime
    /\ \A u \in DOMAIN edges : \A v \in DOMAIN edges[u] :
          edges'[u][v].ping_old = edges[u][v].ping_old

\* C13: in supernode mode, as long as every measurement passed to
\* UpdateLatency is within tolerance of its edge's ping_old and no edge is
\* stale, neither a measurement nor a timeout check runs the solver, and the
\* next-hop table stays as it is.
C13_JitterSuppressed ==
    [][(/\ Settled
        /\ \/ \E m \in JitterPongs :
                 /\ WithinTolerance(m.Src_nodeID, m.Dst_nodeID, m.Timediff)
                 /\ HandlePong(m)
           \/ TimeoutCheck)
       => NoSolverRun]_vars

\* the weight of the edge (u, v), its measurement or Infinity once it is
\* stale, has left the tolerance of its ping_old
Pending(u, v) ==
    /\ HasEdge(edges, u, v)
    /\ ~WithinTolerance(u, v, Weight(edges, now, NodeReportTimeout, u, v))

\* C14: a real change is never lost: once the measurement of an edge is
\* beyond tolerance of its ping_old, also inside the cooldown window, the
\* solver is eventually rerun with it (ping_old becomes the weight), given
\* that the cooldown ends while the clock still runs.
C14_ChangeNotLost ==
    \A u \in Peers, v \in Peers :
        (Pending(u, v) /\ recalculateTime + graphConfig.RecalculateCoolDown < MaxTime)
            ~> ~Pending(u, v)

(***************************************************************************)
(* SpecWeight: a supernode whose peers are configured with an additional   *)
(* cost; measurements come in, the clock runs and Weight is read.          *)
(***************************************************************************)
\* the largest AdditionalCost (milliseconds) of a SuperPeerInfo
MaxCost == 1

InitWeight ==
    /\ phase = "run"
    /\ now = 0
    /\ FloodIdle
    /\ SuperStart(Peers, DefaultConfig)
    /\ AdditionalCost \in [Peers -> 0..MaxCost]

\* IG.Weight is called
ReadWeight(u, v) ==
    /\ phase = "run"
    /\ event' = [op |-> "Weight", u |-> u, v |-> v,
                 ret |-> Weight(edges, now, NodeReportTimeout, u, v)]
    /\ lastSent' = {}
    /\ UNCHANGED <<phase, now, igVars, floodVars, StaticMode, http_PeerID2Info,
                   http_PeerState, http_NhTable_Hash, http_NhTableStr,
                   http_PeerInfo_hash, endpoints, lastRegister, convVars, moreVars>>

NextWeight ==
    \/ \E m \in PongMsgs : HandlePong(m)
    \/ \E u \in Peers, v \in Peers : ReadWeight(u, v)
    \/ Clock(MaxTime)

SpecWeight == InitWeight /\ [][NextWeight]_vars

\* C17: Weight(u, v) is 0 when u = v, Infinity when the edge is absent or
\* its timestamp is older than NodeReportTimeout, and otherwise
\* ping(u, v) + additional_cost(v).
C17_WeightWithCost ==
    event.op = "Weight" =>
        LET u == event.u
            v == event.v
        IN  event.ret =
               IF u = v THEN 0
               ELSE IF ~HasEdge(edges, u, v) THEN Infinity
               ELSE IF now > edges[u][v].time + NodeReportTimeout THEN Infinity
               ELSE edges[u][v].ping + AdditionalCost[v]

(***************************************************************************)
(* SpecStale: the graph of a supernode of three peers, none of which has   *)
(* registered yet.  Measurements of one millisecond come in, the timeout   *)
(* check runs and the clock runs.  The edge 1 -> 2 is measured in the      *)
(* first second and not again; the other edges are measured from then on.  *)
(***************************************************************************)
\* the measurement that stops coming
FirstPong == Pong(1, 2, 1)

\* the measurements that keep coming
LaterPongs == {Pong(p[1], p[2], 1) : p \in DirectedPairs(SmallNodes)} \ {FirstPong}

InitStale ==
    /\ AdditionalCost = [p \in Peers |-> 0]
    /\ phase = "run"
    /\ now = 0
    /\ FloodIdle
    /\ \E conf \in {[DefaultConfig EXCEPT !.JitterTolerance = 0], DefaultConfig} :
          SuperStart(SmallNodes, conf)

NextStale ==
    \/ now = 0 /\ HandlePong(FirstPong)
    \/ now > 0 /\ \E m \in LaterPongs : HandlePong(m)
    \/ TimeoutCheck
    \/ Clock(MaxTime)

SpecStale == InitStale /\ [][NextStale]_vars

\* the table nh sends some traffic of u over the edge (u, v)
RoutesOver(nh, u, v) ==
    u \in DOMAIN nh /\ \E d \in DOMAIN nh[u] : nh[u][d] = v

Stale(u, v) == HasEdge(edges, u, v) /\ now > edges[u][v].time + NodeReportTimeout

Fresh(u, v) == HasEdge(edges, u, v) /\ now <= edges[u][v].time + NodeReportTimeout

\* a live path from u to v that avoids the edge (u, v)
LiveDetour(u, v) == \E w \in SmallNodes \ {u, v} : Fresh(u, w) /\ Fresh(w, v)

\* C18: when an edge (u, v) that the installed table routes over has gone
\* stale while a live path from u to v remains, a timeout check processed
\* outside the cooldown window leaves a table that no longer routes over
\* (u, v).
C18_StaleAbandoned ==
    [][\A u \in SmallNodes, v \in SmallNodes :
         (/\ RoutesOver(nhTable, u, v)
          /\ Stale(u, v)
          /\ LiveDetour(u, v)
          /\ recalculateTime + graphConfig.RecalculateCoolDown < now
          /\ TimeoutCheck)
         => ~RoutesOver(nhTable', u, v)]_vars

(***************************************************************************)
(* SpecStatic: the graph of a supernode in static mode, its next-hop table *)
(* given by the configuration (SetNHTable, line 185): measurements come    *)
(* in, the timeout check runs, the clock runs and vertices are removed.    *)
(***************************************************************************)
InitStatic ==
    /\ AdditionalCost = [p \in Peers |-> 0]
    /\ phase = "run"
    /\ now = 0
    /\ FloodIdle
    /\ SuperStart(SmallNodes, [DefaultConfig EXCEPT !.StaticMode = TRUE])

\* http_graph.RemoveVirt(v, true, false), line 360
CallRemoveVirt(v) ==
    /\ phase = "run"
    /\ v \in Vert
    /\ \E ks \in Perms(Vert \ {v}) :
         \E r \in {RemoveVirt(IG, v, TRUE, FALSE, now, ks)} :
            /\ Vert' = r.G.Vert
            /\ edges' = r.G.edges
            /\ dlTable' = r.G.dlTable
            /\ nhTable' = r.G.nhTable
            /\ recalculateTime' = r.G.recalculateTime
            /\ NhTableHash' = r.G.NhTableHash
    /\ lastSent' = {}
    /\ event' = [op |-> "RemoveVirt"]
    /\ UNCHANGED <<phase, now, floodVars, StaticMode, http_PeerID2Info, http_PeerState,
                   http_NhTable_Hash, http_NhTableStr, http_PeerInfo_hash, endpoints,
                   lastRegister, convVars, moreVars>>

NextStatic ==
    \/ \E m \in LaterPongs \cup {FirstPong} : HandlePong(m)
    \/ TimeoutCheck
    \/ Clock(MaxTime)
    \/ \E v \in SmallNodes : CallRemoveVirt(v)

SpecStatic == InitStatic /\ [][NextStatic]_vars

\* C19: in static mode no sequence of UpdateLatency, RemoveVirt,
\* RecalculateNhTable, GetNHTable(true) and timeout checks runs the solver
\* or alters the tables: next and dist are those SetNHTable installed, and
\* no ping_old was ever set.
C19_StaticTablesFixed ==
    StaticMode =>
        /\ nhTable = StaticTable
        /\ dlTable = <<>>
        /\ \A u \in DOMAIN edges : \A v \in DOMAIN edges[u] :
              edges[u][v].ping_old = Infinity

\* measurements were taken, a second has passed, the handler has published
\* a hash, and a vertex has just been removed
C19_Witness ==
    /\ StaticMode
    /\ event.op = "RemoveVirt"
    /\ now > 0
    /\ http_NhTable_Hash # ZeroHash
    /\ \E u \in DOMAIN edges : DOMAIN edges[u] # {}
    /\ nhTable = StaticTable


(***************************************************************************)
(* SpecNeg: the solver run once on a graph with negative latencies (a Pong *)
(* carries the difference of two clocks), some of them on a cycle, so the  *)
(* repair of lines 914-935 and the retry of line 922 are run.              *)
(***************************************************************************)
\* the most negative latency of a graph of InitNeg
MaxNegative == 3

NegLatencies == {0 - MaxNegative, 0 - 1, 1}

\* every directed graph on all but one vertex with latencies of NegLatencies,
\* the records of one vertex at most timed out
InitNeg ==
    /\ AdditionalCost = [p \in Peers |-> 0]
    /\ phase = "graph"
    /\ now = MaxTime
    /\ Vert = SmallNodes
    /\ \E w \in [DirectedPairs(SmallNodes) -> {Infinity} \cup NegLatencies],
          silent \in Specials(SmallNodes) :
          edges = BuildGraph(SmallNodes, w, {}, silent, MaxTime)
    /\ dlTable = <<>>
    /\ nhTable = <<>>
    /\ FloodIdle
    /\ SuperIdle(DefaultConfig)

\* dist, next, err := g.FloydWarshall(false), line 1063
RunNeg ==
    /\ phase = "graph"
    /\ \E ks \in Perms(Vert), ks2 \in Perms(Vert) :
         \E r \in {FloydWarshall(Vert, edges, now, NodeReportTimeout, ks, ks2)} :
            /\ dlTable' = r.dist
            /\ nhTable' = r.next
            /\ edges' = r.edges
            /\ fwErr' = r.err
    /\ phase' = "table"
    /\ UNCHANGED <<now, Vert, floodVars, superVars, convVars, graphConfig,
                   AdditionalCost, peerdel, http_device, http_PeerIPs, taskVars>>

NextNeg == RunNeg

SpecNeg == InitNeg /\ [][NextNeg]_vars

\* the graph of the state with every negative weight that Weight reports set to 0
Clamped ==
    [u \in DOMAIN edges |->
        [v \in DOMAIN edges[u] |->
            IF Weight(edges, now, NodeReportTimeout, u, v) < 0
            THEN [edges[u][v] EXCEPT !.ping = 0]
            ELSE edges[u][v]]]

\* C20: when a run of FloydWarshall reports a negative cycle, the ping of
\* every live edge with a negative weight has become 0 and no other ping has
\* changed, the tables returned are those of one further run over the
\* clamped graph, and no entry of the returned dist is negative; empty dist
\* or next tables come back only when that further run finds a negative
\* cycle too.
C20_NegativeCycleRepaired ==
    [][(phase = "graph" /\ phase' = "table") =>
         /\ fwErr' # "none" =>
              /\ DOMAIN edges' = DOMAIN edges
              /\ \A u \in DOMAIN edges :
                    /\ DOMAIN edges'[u] = DOMAIN edges[u]
                    /\ \A v \in DOMAIN edges[u] :
                          edges'[u][v].ping = Clamped[u][v].ping
              /\ \E ks2 \in Perms(Vert) :
                    \E p2 \in {FWPass(Vert, Clamped, now, NodeReportTimeout, ks2)} :
                       /\ dlTable' = p2.T.dist
                       /\ nhTable' = p2.T.next
              /\ DOMAIN dlTable' = Vert
              /\ \A i \in DOMAIN dlTable' : \A j \in DOMAIN dlTable'[i] :
                    dlTable'[i][j] >= 0
         /\ (dlTable' = <<>> \/ nhTable' = <<>>) =>
              /\ fwErr' # "none"
              /\ \E ks2 \in Perms(Vert) :
                    NegativeCycle(FWPass(Vert, Clamped, now, NodeReportTimeout, ks2).T)
      ]_vars

\* the run on 1 -> 2 = 1, 2 -> 1 = -3 has detected the cycle, set 2 -> 1 to 0
\* (no graph of InitNeg has a latency of 0) and returned tables with
\* dist[2][1] = 0
C20_Witness ==
    /\ phase = "table"
    /\ fwErr = "negative cycle detected"
    /\ HasEdge(edges, 1, 2) /\ edges[1][2].ping = 1
    /\ HasEdge(edges, 2, 1) /\ edges[2][1].ping = 0
    /\ DOMAIN dlTable = Vert
    /\ dlTable[2][1] = 0
    /\ dlTable[1][2] = 1
    /\ nhTable[2][1] = 1

(***************************************************************************)
(* The diagonal of the tables FloydWarshall returns, checked under SpecFW. *)
(***************************************************************************)
\* C21: in every table returned by FloydWarshall over a non-empty vertex
\* set, each vertex u has dist[u][u] = 0 and no entry next[u][u].
C21_DiagonalEmpty ==
    (phase = "table" /\ Vert # {}) =>
        \A u \in Vert :
            /\ dlTable[u][u] = 0
            /\ Next(nhTable, u, u) = NoVertex

(***************************************************************************)
(* SpecRecalc: the graph of a supernode of two peers whose clocks differ:  *)
(* a Pong reports a negative time difference as well as a positive one.    *)
(* Measurements come in, the timeout check runs, the clock runs and        *)
(* vertices are removed, with and without a cooldown.                      *)
(***************************************************************************)
SkewPongs ==
    {Pong(p[1], p[2], dt) : p \in DirectedPairs(Peers), dt \in {0 - 1, 1, MaxJitterDelay}}

NextRecalc ==
    \/ \E m \in SkewPongs : HandlePong(m)
    \/ TimeoutCheck
    \/ Clock(MaxTime)
    \/ \E v \in Peers : CallRemoveVirt(v)

SpecRecalc == InitJitter /\ [][NextRecalc]_vars

\* C22: after any sequence of UpdateLatency calls, whatever time difference
\* they report, every stored edge has ping >= 0 (the infinite sentinel
\* included).
C22_PingNonNegative ==
    \A u \in DOMAIN edges : \A v \in DOMAIN edges[u] : edges[u][v].ping >= 0

\* the next hop of some pair, a missing entry being no hop, is not the same
\* in the table installed before the step and in the one installed after it
HopsDiffer ==
    \E src \in Peers, dst \in Peers : Next(nhTable, src, dst) # Next(nhTable', src, dst)

\* C23: the call RecalculateNhTable(checkchange = true) made for a Pong or a
\* timeout check returns changed = true if and only if some pair has a
\* different next hop, by value, in the table installed before and in the
\* table installed after: an identical table gives false, a lost route true.
C23_ChangedIffHopsDiffer ==
    [][event'.op = "pong" => (event'.changed <=> HopsDiffer)]_vars

\* C24: a non-zero NhTableHash is the hash of the installed next-hop table:
\* the installation of a new table leaves NhTableHash zero until the table
\* is hashed again.
C24_HashOfCurrentTable ==
    NhTableHash # ZeroHash => NhTableHash = Md5(Marshal(nhTable))

\* C25: a step taken while less than RecalculateCoolDown has passed since
\* the run of the solver that stamped recalculateTime changes neither next
\* nor dist nor the ping_old of any edge.
C25_CooldownRespected ==
    [][(/\ recalculateTime # ZeroTime
        /\ now < recalculateTime + graphConfig.RecalculateCoolDown)
       => /\ nhTable' = nhTable
          /\ dlTable' = dlTable
          /\ \A u \in DOMAIN edges' : \A v \in DOMAIN edges'[u] :
                HasEdge(edges, u, v) => edges'[u][v].ping_old = edges[u][v].ping_old]_vars

\* the step ran the solver: every ping_old is the weight the edge has at the
\* instant of the step
RunWeights ==
    \A u \in DOMAIN edges' : \A v \in DOMAIN edges'[u] :
        edges'[u][v].ping_old = Weight(edges', now, NodeReportTimeout, u, v)

\* the step wrote no ping_old: an edge has the one it had, a new edge Infinity
KeptOld ==
    \A u \in DOMAIN edges' : \A v \in DOMAIN edges'[u] :
        edges'[u][v].ping_old =
            IF HasEdge(edges, u, v) THEN edges[u][v].ping_old ELSE Infinity

\* C26: ping_old is the weight the most recent run of the solver used for
\* the edge, Infinity for an edge no run has covered: a step either rewrites
\* every ping_old to the weight of its edge, as a run of the solver does, or
\* leaves every ping_old as it was (Infinity for a new edge), and only a
\* step of the first kind changes next or dist.
C26_PingOldFromLastRun ==
    [][/\ RunWeights \/ KeptOld
       /\ (nhTable' # nhTable \/ dlTable' # dlTable) => RunWeights]_vars

\* a measurement within tolerance has just replaced the ping of an edge the
\* solver covered: ping and ping_old differ, and ping_old is not Infinity
C26_Witness ==
    /\ event.op = "pong"
    /\ ~event.changed
    /\ \E u \in DOMAIN edges : \E v \in DOMAIN edges[u] :
          /\ edges[u][v].ping_old # Infinity
          /\ edges[u][v].ping # edges[u][v].ping_old
          /\ edges[u][v].time = now

\* C27: the graph (vertices, edges, next and dist, NhTableHash) and the peer
\* maps are written by the event handler alone: no step of super_peerdel,
\* which runs in the task of its HTTP request, changes any of them.
C27_SingleWriter ==
    [][peerdel' # peerdel =>
         UNCHANGED <<igVars, http_PeerID2Info, http_PeerState, http_PeerIPs>>]_vars

(***************************************************************************)
(* SpecInstall: the event loop of SpecJitter with the assignment of line   *)
(* 709, g.dlTable, g.nhTable = dist, next, taken as the two stores it is.  *)
(* No lock is held around them and the readers of the two fields (Next,    *)
(* GetNHTable, GetDtst, GetBoardcastList) take none, so another task may   *)
(* see the fields after either store alone.                                *)
(***************************************************************************)
\* lines 410-419 for the values r of PongStep
PongEffects(r) ==
    /\ InstallPublished(r)
    /\ lastSent' = IF r.changed
                   THEN PushNhTable(FALSE, http_PeerState, r.hash, endpoints, now)
                   ELSE {}
    /\ event' = [op |-> "pong", changed |-> r.changed]

\* lines 399-408 up to the first store of line 709, for a Pong that makes
\* RecalculateNhTable install tables; the edges are written by then (lines
\* 743-751 and 899), recalculateTime (line 710) is not
StoreOne(m) ==
    /\ phase = "run"
    /\ install = NoInstall
    /\ \E ks \in Perms(VertAfter(Vert, m)) : \E r \in {PongStep(Published, m, now, ks)} :
          /\ r.G.dlTable # dlTable \/ r.G.nhTable # nhTable
          /\ \E first \in {"dlTable", "nhTable"} :
                /\ dlTable' = IF first = "dlTable" THEN r.G.dlTable ELSE dlTable
                /\ nhTable' = IF first = "nhTable" THEN r.G.nhTable ELSE nhTable
          /\ Vert' = r.G.Vert
          /\ edges' = r.G.edges
          /\ install' = [pc |-> "store", r |-> r]
    /\ UNCHANGED <<phase, now, floodVars, superVars, convVars, graphConfig, AdditionalCost,
                   peerdel, http_device, http_PeerIPs, fwErr, Event_server_pong,
                   timeoutCheck, http_maps_lock>>

\* the other store of line 709 and the rest of the handler, lines 710 and
\* 409-419
StoreRest ==
    /\ install # NoInstall
    /\ PongEffects(install.r)
    /\ install' = NoInstall
    /\ UNCHANGED <<phase, now, floodVars, StaticMode, http_PeerID2Info, http_PeerState,
                   http_PeerInfo_hash, endpoints, lastRegister, convVars, graphConfig,
                   AdditionalCost, peerdel, http_device, http_PeerIPs, fwErr,
                   Event_server_pong, timeoutCheck, http_maps_lock>>

NextInstall ==
    \/ install = NoInstall /\ NextJitter
    \/ \E m \in JitterPongs \cup {TimeoutMsg} : StoreOne(m)
    \/ StoreRest

SpecInstall == InitJitter /\ [][NextInstall]_vars

\* dist and next are a pair one run of the solver returned (or the empty
\* pair of the start): they have the same rows, and a pair of vertices has
\* a next hop exactly when its distance is below Infinity
PairOfOneRun ==
    /\ DOMAIN dlTable = DOMAIN nhTable
    /\ \A u \in DOMAIN dlTable : \A v \in DOMAIN dlTable :
          u # v => (dlTable[u][v] < Infinity <=> Next(nhTable, u, v) # NoVertex)

\* C28: a recomputed pair (dist, next) is installed as one: in no state that
\* another task can read are dist and next of different runs of the solver.
C28_InstalledAsOne == PairOfOneRun

(***************************************************************************)
(* SpecQueue: the two channels of the supernode.  RoutineTimeoutCheck      *)
(* sends its Register and its Pong, round after round; the event loop      *)
(* takes a message from whichever channel its select finds ready and       *)
(* handles it to the end.                                                  *)
(***************************************************************************)
\* the capacity 1<<5 of either channel, lines 181-182
ChanCap == 32

\* lines 442-453: one statement of the loop.  A send on a channel that holds
\* ChanCap messages does not return before the event loop has taken one.
RoutineTimeoutCheck ==
    /\ phase = "run"
    /\ \/ /\ timeoutCheck = "register"
          /\ Len(Event_server_register) < ChanCap
          /\ Event_server_register' =
                Append(Event_server_register,
                       [Node_id |-> SuperNodeMessage, NhStateHash |-> ZeroHash,
                        PeerStateHash |-> ZeroHash])
          /\ timeoutCheck' = "pong"
          /\ UNCHANGED Event_server_pong
       \/ /\ timeoutCheck = "pong"
          /\ Len(Event_server_pong) < ChanCap
          /\ Event_server_pong' = Append(Event_server_pong, TimeoutMsg)
          /\ timeoutCheck' = "sleep"
          /\ UNCHANGED Event_server_register
       \/ /\ timeoutCheck = "sleep"
          /\ timeoutCheck' = "register"
          /\ UNCHANGED <<Event_server_register, Event_server_pong>>
    /\ UNCHANGED <<phase, graphVars, floodVars, superVars, wire, edgeNh, graphConfig,
                   AdditionalCost, peerdel, http_device, http_PeerIPs, fwErr, install,
                   http_maps_lock>>

\* line 399 and the handler of lines 400-419: the event loop takes the Pong
\* at the head of its channel
TakePong ==
    /\ phase = "run"
    /\ Event_server_pong # <<>>
    /\ \E ks \in Perms(VertAfter(Vert, Head(Event_server_pong))) :
         \E r \in {PongStep(Published, Head(Event_server_pong), now, ks)} : PongEffects(r)
    /\ Event_server_pong' = Tail(Event_server_pong)
    /\ UNCHANGED <<phase, now, floodVars, StaticMode, http_PeerID2Info, http_PeerState,
                   http_PeerInfo_hash, endpoints, lastRegister, convVars, graphConfig,
                   AdditionalCost, peerdel, http_device, http_PeerIPs, fwErr, install,
                   timeoutCheck, http_maps_lock>>

\* the select of line 370 takes either channel that has a message
NextQueue ==
    \/ RoutineTimeoutCheck
    \/ TakeRegister
    \/ TakePong

SpecQueue == Init /\ [][NextQueue]_vars

\* C29: either channel holds at most ChanCap messages, and a producer is
\* never held up by a full channel: RoutineTimeoutCheck can always execute
\* its next statement (a message for a full channel being dropped).
C29_BoundedNeverBlocks ==
    /\ Len(Event_server_register) <= ChanCap
    /\ Len(Event_server_pong) <= ChanCap
    /\ ENABLED RoutineTimeoutCheck

\* the Register of the round of RoutineTimeoutCheck under way is sent and
\* its Pong is not
Started == IF timeoutCheck = "pong" THEN 1 ELSE 0

\* C30: messages of either kind are handled in the order of their arrival.
\* RoutineTimeoutCheck sends the Register of a round before its Pong and
\* that Pong before the next Register, so the event loop takes a Pong only
\* when the Register of its round has been taken (fewer Registers of
\* completed rounds wait than Pongs), and a Register only when the Pong of
\* the round before has been taken.
C30_ArrivalOrder ==
    [][/\ TakePong => Len(Event_server_register) - Started < Len(Event_server_pong)
       /\ TakeRegister => Len(Event_server_pong) <= Len(Event_server_register) - Started
      ]_vars

(***************************************************************************)
(* Messages that name a node the supernode does not know.                  *)
(***************************************************************************)
\* C31: the event loop never faults: after a Register or a Pong of a node
\* id below Special_NodeID that has no entry in http_PeerID2Info the loop is
\* still running.
C31_LoopNeverFaults == phase # "panic"

\* C32: once super_peerdel(v) has returned, v is not a vertex of the graph
\* and is on no edge, in that state and in every later one (super_peeradd is
\* not called again), whatever Pongs that name v are handled afterwards.
C32_DeletionNotUndone ==
    peerdel.pc = "returned" =>
        /\ peerdel.toDelete \notin Vert
        /\ peerdel.toDelete \notin DOMAIN edges
        /\ \A u \in DOMAIN edges : peerdel.toDelete \notin DOMAIN edges[u]

(***************************************************************************)
(* The installed table after a vertex has been removed.                    *)
(***************************************************************************)
Mentions(nh, v) ==
    \/ v \in DOMAIN nh /\ \E w \in DOMAIN nh[v] : nh[v][w] # NoVertex
    \/ \E u \in DOMAIN nh :
          \/ v \in DOMAIN nh[u] /\ nh[u][v] # NoVertex
          \/ \E w \in DOMAIN nh[u] : nh[u][w] = v

\* C33: after RemoveVirt(v, recalculate = true) has returned in non-static
\* mode the installed next-hop table has no entry with v as source, as
\* destination or as next hop.
C33_RemovedNotInTable ==
    [][\A v \in Peers :
          (event'.op = "RemoveVirt" /\ v \in Vert /\ v \notin Vert' /\ ~StaticMode)
              => ~Mentions(nhTable', v)]_vars

(***************************************************************************)
(* UpdateLatency in its two critical sections.  edgelock is released after *)
(* line 738 and taken again at line 741, so a RemoveVirt of another task   *)
(* (super_peerdel, line 360, holds no lock of the event loop) can run in   *)
(* between.  A store into the row edges[u] that is gone is a store into a  *)
(* nil map: the process ends.                                               *)
(***************************************************************************)
\* lines 731-740
EnterLatency(m) ==
    /\ phase = "run"
    /\ install = NoInstall
    /\ LET u == m.Src_nodeID
           v == m.Dst_nodeID
           newrow == u \notin DOMAIN edges
           G1 == [IG EXCEPT !.Vert = @ \cup {u, v},
                            !.recalculateTime = IF newrow THEN ZeroTime ELSE @,
                            !.edges = IF newrow THEN AddRow(@, u) ELSE @]
       IN  /\ Vert' = G1.Vert
           /\ recalculateTime' = G1.recalculateTime
           /\ edges' = G1.edges
           /\ install' = [pc |-> "gap", m |-> m,
                          should_update |-> ShouldUpdate(G1, u, v, m.Timediff)]
    /\ UNCHANGED <<phase, now, dlTable, nhTable, floodVars, NhTableHash, http_PeerID2Info,
                   http_PeerState, http_NhTable_Hash, http_NhTableStr, http_PeerInfo_hash,
                   endpoints, StaticMode, lastRegister, lastSent, event, convVars,
                   graphConfig, AdditionalCost, peerdel, http_device, http_PeerIPs, fwErr,
                   Event_server_pong, timeoutCheck, http_maps_lock>>

\* lines 741-756 and 409-420
StoreLatency ==
    /\ phase = "run"
    /\ install.pc = "gap"
    /\ install' = NoInstall
    /\ LET u == install.m.Src_nodeID
           v == install.m.Dst_nodeID
       IN  IF u \notin DOMAIN edges
           THEN /\ phase' = "panic"
                /\ UNCHANGED <<igVars, http_NhTable_Hash, http_NhTableStr, lastSent, event>>
           ELSE /\ phase' = phase
                /\ \E ks \in Perms(Vert) :
                     \E r \in {IF install.should_update
                               THEN RecalculateNhTable(
                                        [IG EXCEPT !.edges =
                                            PutEdge(@, u, v, install.m.Timediff, now)],
                                        TRUE, now, ks)
                               ELSE [G |-> [IG EXCEPT !.edges =
                                            PutEdge(@, u, v, install.m.Timediff, now)],
                                     changed |-> FALSE]} :
                        PongEffects(IF r.changed
                                    THEN [changed |-> TRUE] @@ Publish(Published, r.G, now, ks)
                                    ELSE [changed |-> FALSE, G |-> r.G,
                                          hash |-> http_NhTable_Hash,
                                          str |-> http_NhTableStr])
    /\ UNCHANGED <<now, floodVars, StaticMode, http_PeerID2Info, http_PeerState,
                   http_PeerInfo_hash, endpoints, lastRegister, convVars, graphConfig,
                   AdditionalCost, peerdel, http_device, http_PeerIPs, fwErr,
                   Event_server_pong, timeoutCheck, http_maps_lock>>

NextGap ==
    \/ \E m \in JitterPongs : EnterLatency(m)
    \/ StoreLatency
    \/ \E v \in Peers : CallRemoveVirt(v)
    \/ Clock(MaxTime)

SpecGap == InitJitter /\ [][NextGap]_vars

\* C34: UpdateLatency(u, v) interleaved with RemoveVirt(u) of another task
\* never stores into a row edges[u] that is missing, and in every state each
\* vertex that has an edge row or is the target of an edge is in Vert.
C34_SafeInterleaving ==
    /\ phase # "panic"
    /\ \A u \in DOMAIN edges :
          /\ u \in Vert
          /\ \A v \in DOMAIN edges[u] : v \in Vert

(***************************************************************************)
(* http_maps_lock.  The Register case writes the PeerState of the sender   *)
(* and its local addresses between RLock (line 374) and RUnlock (line      *)
(* 392); PushNhTable and PushPeerinfo read every PeerState between RLock   *)
(* and RUnlock (lines 471-486, 504-519) in the task of                     *)
(* RoutinePushSettings; super_peerdel deletes between Lock and Unlock      *)
(* (lines 361-365).  RLock of a sync.RWMutex returns while no task holds   *)
(* Lock, Lock while no task holds the mutex at all.                        *)
(***************************************************************************)
Tasks == {"event", "push", "peerdel"}

Holders(mode) == {t \in Tasks : http_maps_lock[t] = mode}

lockFrame == <<phase, graphVars, floodVars, superVars, convVars, graphConfig,
               AdditionalCost, http_device, http_PeerIPs, fwErr, install,
               Event_server_pong, timeoutCheck>>

\* line 374
RegisterRLock ==
    /\ phase = "run"
    /\ http_maps_lock.event = "out"
    /\ Holders("Lock") = {}
    /\ http_maps_lock' = [http_maps_lock EXCEPT !.event = "RLock"]
    /\ UNCHANGED <<lockFrame, peerdel>>

\* lines 375-398
RegisterRUnlock(m) ==
    /\ http_maps_lock.event = "RLock"
    /\ RegisterEffects(m)
    /\ http_maps_lock' = [http_maps_lock EXCEPT !.event = "out"]
    /\ UNCHANGED <<now, igVars, floodVars, StaticMode, http_PeerID2Info, http_NhTable_Hash,
                   http_NhTableStr, endpoints, convVars, graphConfig, AdditionalCost,
                   peerdel, http_device, http_PeerIPs, fwErr, install, Event_server_pong,
                   timeoutCheck>>

\* lines 429-435 and 471, line 504
PushRLock ==
    /\ phase = "run"
    /\ http_maps_lock.push = "out"
    /\ Holders("Lock") = {}
    /\ \E force \in BOOLEAN :
          http_maps_lock' =
             [http_maps_lock EXCEPT
                !.push = "RLock",
                !.force = IF http_maps_lock.pushing = "PushNhTable" THEN force ELSE @]
    /\ UNCHANGED <<lockFrame, peerdel>>

\* lines 472-486, lines 505-519
PushRUnlock ==
    /\ phase = "run"
    /\ http_maps_lock.push = "RLock"
    /\ lastSent' = IF http_maps_lock.pushing = "PushNhTable"
                   THEN PushNhTable(http_maps_lock.force, http_PeerState,
                                    http_NhTable_Hash, endpoints, now)
                   ELSE PushPeerinfo(http_maps_lock.force, http_PeerState,
                                     http_PeerInfo_hash, now)
    /\ event' = [op |-> "push", force |-> http_maps_lock.force]
    /\ http_maps_lock' =
          [http_maps_lock EXCEPT
             !.push = "out",
             !.pushing = IF @ = "PushNhTable" THEN "PushPeerinfo" ELSE "PushNhTable"]
    /\ UNCHANGED <<phase, now, igVars, floodVars, StaticMode, http_PeerID2Info,
                   http_PeerState, http_NhTable_Hash, http_NhTableStr, http_PeerInfo_hash,
                   endpoints, lastRegister, convVars, graphConfig, AdditionalCost, peerdel,
                   http_device, http_PeerIPs, fwErr, install, Event_server_pong,
                   timeoutCheck>>

\* line 361
PeerDelLock ==
    /\ phase = "run"
    /\ peerdel.pc = "maps"
    /\ http_maps_lock.peerdel = "out"
    /\ Holders("Lock") \cup Holders("RLock") = {}
    /\ http_maps_lock' = [http_maps_lock EXCEPT !.peerdel = "Lock"]
    /\ UNCHANGED <<lockFrame, peerdel>>

\* lines 362-365
PeerDelUnlock ==
    /\ phase = "run"
    /\ http_maps_lock.peerdel = "Lock"
    /\ http_PeerState' = [k \in DOMAIN http_PeerState \ {peerdel.PubKey} |-> http_PeerState[k]]
    /\ http_PeerIPs' = http_PeerIPs \ {peerdel.PubKey}
    /\ http_PeerID2Info' = http_PeerID2Info \ {peerdel.toDelete}
    /\ peerdel' = [peerdel EXCEPT !.pc = "returned"]
    /\ event' = [op |-> "peerdel"]
    /\ http_maps_lock' = [http_maps_lock EXCEPT !.peerdel = "out"]
    /\ UNCHANGED <<phase, now, igVars, floodVars, convVars, StaticMode, lastRegister,
                   lastSent, http_PeerInfo_hash, endpoints, graphConfig, AdditionalCost,
                   fwErr, http_NhTable_Hash, http_NhTableStr, http_device, install,
                   Event_server_pong, timeoutCheck>>

NextLock ==
    \/ RegisterRLock
    \/ \E m \in RegisterMsgs : RegisterRUnlock(m)
    \/ PushRLock
    \/ PushRUnlock
    \/ \E p \in Peers, x \in Transports : ReceivePacket(p, x)
    \/ \E v \in Peers : PeerDelStart(v)
    \/ PeerDelSend
    \/ PeerDelRemovePeers
    \/ PeerDelRemoveVirt
    \/ PeerDelLock
    \/ PeerDelUnlock

SpecLock == Init /\ [][NextLock]_vars

\* C35: a task that writes a PeerState entry or a peer's local addresses
\* (the Register case of the event loop, super_peerdel) and the task of
\* RoutinePushSettings reading the entries in PushNhTable or PushPeerinfo
\* are never inside their critical sections at the same time.
C35_WritersExcludeReaders ==
    http_maps_lock.push # "out" =>
        /\ http_maps_lock.event = "out"
        /\ http_maps_lock.peerdel = "out"

(***************************************************************************)
(* The hash the supernode publishes and the table it stands for.           *)
(***************************************************************************)
\* C36: two different installed next-hop tables are never published under
\* the same hash: no step installs a different nhTable and leaves the
\* published, non-zero http_NhTable_Hash as it was, so that an edge which has
\* acknowledged that hash holds the table now installed.
C36_HashTellsTable ==
    [][(http_NhTable_Hash # ZeroHash /\ http_NhTable_Hash' = http_NhTable_Hash)
          => nhTable' = nhTable]_vars

(***************************************************************************)
(* The flood with every copy on the wire delivered in the end: a node that *)
(* has received a packet handles it.                                        *)
(***************************************************************************)
SpecFloodLive == SpecFlood /\ WF_vars(\E m \in inflight : Forward(m))

\* C37: with every node holding the same table computed by FloydWarshall
\* over latencies >= 0 (zero allowed), the source s sending to
\* GetBoardcastList(s) and every receiver forwarding to
\* GetBoardcastThroughList, each vertex v with Next(s, v) not None is
\* eventually sent the broadcast at least once.
C37_BroadcastCoverage ==
    \A v \in Nodes :
        (phase = "flood" /\ NonNegativeGraph /\ Next(nhTable, bsrc, v) # NoVertex)
            ~> (nsent[v] >= 1)

\* a flood that has ended over a graph with a zero latency: a vertex two
\* hops or more from the source was sent the broadcast, as was every vertex
\* the source has a route to
C37_Witness ==
    /\ phase = "flood"
    /\ NonNegativeGraph
    /\ inflight = {}
    /\ \E u, v \in Vert : u # v /\ Weight(edges, now, NodeReportTimeout, u, v) = 0
    /\ \E v \in Vert : Next(nhTable, bsrc, v) \notin {NoVertex, v} /\ nsent[v] >= 1
    /\ \A v \in Vert : Next(nhTable, bsrc, v) # NoVertex => nsent[v] >= 1

====
